---- MODULE Spec2Model ----
(***************************************************************************)
(* A model of the rendering core of katerina-v2 (a Whitted-style ray       *)
(* tracer): intersections and hit selection, the hit record                *)
(* (prepare_computations), group intersection and the recursive shading of *)
(* World (color_at / shade_hit / reflected_color / refracted_color /       *)
(* is_shadowed).                                                           *)
(*                                                                         *)
(* Numbers.  The program computes in f64.  The model computes in exact     *)
(* rationals <<n, d>> (d > 0, lowest terms); every f64 value the scenes    *)
(* below use (0.1, 0.9, 1.5, 0.0001, ...) is written as the rational it    *)
(* denotes.  Not-a-number and the infinities are outside the model.        *)
(*                                                                         *)
(* Geometry.  A Tuple (x, y, z, w) is modelled by its first two            *)
(* components <<x, y>>; z is 0 in every scene of the model and w is kept   *)
(* implicitly (points and vectors are never mixed up by the operators      *)
(* below).  A transform is an affine map of the plane,                     *)
(* [a, b, c, d, tx, ty]: p |-> (a * p.x + b * p.y + tx,                    *)
(* c * p.x + d * p.y + ty).  The 4x4 matrices of matrix.rs themselves are  *)
(* modelled further below, as a size and a row-major list of entries.      *)
(***************************************************************************)
EXTENDS Integers, Sequences, FiniteSets, TLC

VARIABLES
    world,      \* World { objects, lights }
    call,       \* the call the client makes: [fn |-> ..., arguments]
    stack,      \* the call stack of the shading recursion, innermost frame last
    ret,        \* the colour returned by the invocation that finished last
    out,        \* the result of a finished call that is not a colour
    phase,      \* "ready": the client has not called yet; "running"; "done"
    objs,       \* the objects a client builds a scene graph from, by variable
    owner,      \* for each of them, the variable whose add_child attached it
    step,       \* the last operation of the client on objs, with its operands
    camera,     \* the Camera of a render call
    image,      \* the Canvas render fills
    cursor,     \* for each row handed to a worker, the x it writes next
    writes,     \* for each cell of the canvas, the writes made to it so far
    rstate,     \* "ready": render is not called yet; "rendering"; "done"
    mat,        \* the Matrix a client holds, Panicked once a call has panicked
    chain,      \* the matrices whose product mat is, in the order of the calls
    mstep       \* the last call of the client on mat, and the number of calls

sceneVars == <<objs, owner, step>>
shadingVars == <<world, call, stack, ret, out, phase>>
renderVars == <<camera, image, cursor, writes, rstate>>
matrixVars == <<mat, chain, mstep>>
vars ==
    <<world, call, stack, ret, out, phase, objs, owner, step,
      camera, image, cursor, writes, rstate, mat, chain, mstep>>

\* Option<T>: None is the empty tuple, Some(v) the tuple of v
None == <<>>
Some(v) == <<v>>

-----------------------------------------------------------------------------
(* Exact rational arithmetic standing for f64 arithmetic.                  *)

RECURSIVE Gcd(_, _)
Gcd(a, b) == IF b = 0 THEN a ELSE Gcd(b, a % b)

IAbs(i) == IF i < 0 THEN -i ELSE i

\* n / d in lowest terms with a positive denominator; g is gcd(|n|, |d|)
Lowest(n, d, g) == IF d < 0 THEN <<(-n) \div g, (-d) \div g>> ELSE <<n \div g, d \div g>>
R(n, d) == Lowest(n, d, Gcd(IAbs(n), IAbs(d)))

I(n) == <<n, 1>>

\* the sum over the least common denominator (keeps the intermediate values small)
SumOver(a, b, g) ==
    R(a[1] * (b[2] \div g) + b[1] * (a[2] \div g), a[2] * (b[2] \div g))
RAdd(a, b) == SumOver(a, b, Gcd(a[2], b[2]))
RNeg(a) == <<-a[1], a[2]>>
RSub(a, b) == RAdd(a, RNeg(b))
\* the product with the common factors g1 and g2 cancelled crosswise first
ProductOver(a, b, g1, g2) ==
    R((a[1] \div g1) * (b[1] \div g2), (a[2] \div g2) * (b[2] \div g1))
RMul(a, b) ==
    IF a[1] = 0 \/ b[1] = 0 THEN <<0, 1>>
    ELSE ProductOver(a, b, Gcd(IAbs(a[1]), b[2]), Gcd(IAbs(b[1]), a[2]))
RDiv(a, b) == RMul(a, IF b[1] < 0 THEN <<-b[2], -b[1]>> ELSE <<b[2], b[1]>>)
RLt(a, b) == a[1] * b[2] < b[1] * a[2]
RLe(a, b) == a[1] * b[2] <= b[1] * a[2]
RGt(a, b) == RLt(b, a)
RGe(a, b) == RLe(b, a)
RAbs(a) == <<IAbs(a[1]), a[2]>>

RECURSIVE RPow(_, _)
RPow(a, k) ==
    IF k = 0 THEN I(1)
    ELSE IF k % 2 = 0 THEN LET h == RPow(a, k \div 2) IN RMul(h, h)
    ELSE RMul(a, RPow(a, k - 1))

\* floor of the square root of a natural number, by Newton's iteration
RECURSIVE Newton(_, _)
Newton(n, x) ==
    LET y == (x + n \div x) \div 2
    IN  IF y >= x THEN x ELSE Newton(n, y)

ISqrt(n) == IF n = 0 THEN 0 ELSE Newton(n, n)

\* f64::sqrt on the rationals whose root is rational (the only ones the
\* scenes of the model produce)
RSqrt(a) == <<ISqrt(a[1]), ISqrt(a[2])>>

-----------------------------------------------------------------------------
(* Tuple: points, vectors (tuple.rs).  Colours are modelled by one channel *)
(* (a rational): the three channels are computed by the same expressions.  *)

Tuple(x, y) == <<x, y>>
TAdd(a, b) == <<RAdd(a[1], b[1]), RAdd(a[2], b[2])>>
TSub(a, b) == <<RSub(a[1], b[1]), RSub(a[2], b[2])>>
TNeg(a) == <<RNeg(a[1]), RNeg(a[2])>>
TScale(a, s) == <<RMul(a[1], s), RMul(a[2], s)>>
dot(a, b) == RAdd(RMul(a[1], b[1]), RMul(a[2], b[2]))
magnitude(a) == RSqrt(RAdd(RPow(a[1], 2), RPow(a[2], 2)))
Over(a, mag) == <<RDiv(a[1], mag), RDiv(a[2], mag)>>
normalize(a) == Over(a, magnitude(a))
reflect(a, normal) == TSub(a, TScale(TScale(normal, I(2)), dot(a, normal)))

black == I(0)

-----------------------------------------------------------------------------
(* Matrix, restricted to the transforms of the plane: the upper-left 2x2   *)
(* block <<a, b>>, <<c, d>> and the translation column <<tx, ty>>.         *)

Transform(a, b, c, d, tx, ty) ==
    [a |-> a, b |-> b, c |-> c, d |-> d, tx |-> tx, ty |-> ty]
identity == Transform(I(1), I(0), I(0), I(1), I(0), I(0))
translation(x, y) == Transform(I(1), I(0), I(0), I(1), x, y)
scaling(x, y) == Transform(x, I(0), I(0), y, I(0), I(0))
\* rotation_z(r) for r = pi / 2, with cos r = 0 and sin r = 1
rotation_z == Transform(I(0), I(-1), I(1), I(0), I(0), I(0))

determinant(m) == RSub(RMul(m.a, m.d), RMul(m.b, m.c))
is_invertible(m) == determinant(m) # I(0)

\* Matrix::inverse panics on a matrix that is not invertible; the entry
\* (row, col) of the inverse is cofactor(col, row) / det
InverseWith(m, ia, ib, ic, id) ==
    Transform(ia, ib, ic, id,
              RNeg(RAdd(RMul(ia, m.tx), RMul(ib, m.ty))),
              RNeg(RAdd(RMul(ic, m.tx), RMul(id, m.ty))))
InverseOver(m, det) ==
    InverseWith(m, RDiv(m.d, det), RDiv(RNeg(m.b), det),
                RDiv(RNeg(m.c), det), RDiv(m.a, det))
inverse(m) ==
    IF ~is_invertible(m) THEN "panic" ELSE InverseOver(m, determinant(m))

\* Matrix * Tuple for a point (w = 1) and for a vector (w = 0)
MulPoint(m, p) ==
    <<RAdd(RAdd(RMul(m.a, p[1]), RMul(m.b, p[2])), m.tx),
      RAdd(RAdd(RMul(m.c, p[1]), RMul(m.d, p[2])), m.ty)>>
MulVector(m, v) ==
    <<RAdd(RMul(m.a, v[1]), RMul(m.b, v[2])),
      RAdd(RMul(m.c, v[1]), RMul(m.d, v[2]))>>
\* transpose(m) * vector, with the w component of the product dropped
TransposeMulVector(m, v) ==
    <<RAdd(RMul(m.a, v[1]), RMul(m.c, v[2])),
      RAdd(RMul(m.b, v[1]), RMul(m.d, v[2]))>>

-----------------------------------------------------------------------------
(* Matrix as matrix.rs keeps it: a size and the entries row by row.  The   *)
(* entry (row, col), counted from 0, is data[row * size + col + 1].  A     *)
(* call that panics returns no matrix: its result here is Panicked.        *)

Panicked == [size |-> -1, data |-> <<>>]

\* Matrix::new: size is the truncated square root of the length
MatrixNew(data) ==
    LET size == ISqrt(Len(data))
    IN  IF size * size # Len(data) THEN Panicked
        ELSE [size |-> size, data |-> data]

\* Matrix::identity
MatrixIdentity ==
    MatrixNew(<<I(1), I(0), I(0), I(0),
                I(0), I(1), I(0), I(0),
                I(0), I(0), I(1), I(0),
                I(0), I(0), I(0), I(1)>>)

\* Matrix::transpose
MatrixTranspose(m) ==
    IF m.size \in {2, 3, 4}
    THEN MatrixNew([i \in 1..(m.size * m.size) |->
                      m.data[((i - 1) % m.size) * m.size + ((i - 1) \div m.size) + 1]])
    ELSE Panicked

\* Matrix::submatrix: the entries outside the row and the column, in order;
\* the length (size - 1) * (size - 1) is computed in usize, which a size of
\* 0 takes below zero
submatrix(m, row, col) ==
    IF m.size = 0 THEN Panicked
    ELSE LET kept == [i \in 1..((m.size - 1) * (m.size - 1)) |->
                         LET r == (i - 1) \div (m.size - 1)
                             c == (i - 1) % (m.size - 1)
                             sr == IF r < row THEN r ELSE r + 1
                             sc == IF c < col THEN c ELSE c + 1
                         IN  m.data[sr * m.size + sc + 1]]
         IN  MatrixNew(kept)

\* Matrix::determinant, Matrix::minor, Matrix::cofactor
RECURSIVE MatrixDeterminant(_)
RECURSIVE DeterminantFrom(_, _)
minor(m, row, col) == MatrixDeterminant(submatrix(m, row, col))
cofactor(m, row, col) ==
    IF (row + col) % 2 = 0 THEN minor(m, row, col) ELSE RNeg(minor(m, row, col))
\* the loop of determinant from column c on
DeterminantFrom(m, c) ==
    IF c >= m.size THEN I(0)
    ELSE RAdd(RMul(m.data[c + 1], cofactor(m, 0, c)), DeterminantFrom(m, c + 1))
MatrixDeterminant(m) ==
    IF m.size = 2
    THEN RSub(RMul(m.data[1], m.data[4]), RMul(m.data[2], m.data[3]))
    ELSE DeterminantFrom(m, 0)

\* a faulty variant of MatrixIsInvertible: a determinant below a tolerance
\* counts as zero
MatrixIsInvertibleTolerant(m) == RGe(RAbs(MatrixDeterminant(m)), R(1, 10))
\* Matrix::is_invertible
MatrixIsInvertible(m) == MatrixDeterminant(m) # I(0)

\* Matrix::inverse: entry (row, col) is cofactor(col, row) / det
MatrixInverse(m) ==
    IF ~MatrixIsInvertible(m) THEN Panicked
    ELSE LET det == MatrixDeterminant(m)
         IN  IF m.size \in {2, 3, 4}
             THEN MatrixNew([i \in 1..(m.size * m.size) |->
                     RDiv(cofactor(m, (i - 1) % m.size, (i - 1) \div m.size), det)])
             ELSE Panicked

\* impl Mul<&Matrix> for &Matrix: only for two matrices of size 4
MatrixMul(a, b) ==
    IF a.size # b.size THEN Panicked
    ELSE IF a.size = 4
    THEN MatrixNew([i \in 1..16 |->
            LET r == (i - 1) \div 4
                c == (i - 1) % 4
            IN  RAdd(RAdd(RAdd(RMul(a.data[r * 4 + 1], b.data[c + 1]),
                               RMul(a.data[r * 4 + 2], b.data[c + 5])),
                          RMul(a.data[r * 4 + 3], b.data[c + 9])),
                     RMul(a.data[r * 4 + 4], b.data[c + 13]))])
    ELSE Panicked

\* impl Mul<&Tuple> for &Matrix, on a tuple <<x, y, z, w>>
MatrixMulTuple(m, t) ==
    [r \in 1..4 |->
        RAdd(RAdd(RAdd(RMul(m.data[(r - 1) * 4 + 1], t[1]),
                       RMul(m.data[(r - 1) * 4 + 2], t[2])),
                  RMul(m.data[(r - 1) * 4 + 3], t[3])),
             RMul(m.data[(r - 1) * 4 + 4], t[4]))]

\* Transformation: the 4x4 matrices of transformation.rs; a rotation is by
\* PI / 2, with cos = 0 and sin = 1
Translation4(x, y, z) ==
    MatrixNew(<<I(1), I(0), I(0), x,
                I(0), I(1), I(0), y,
                I(0), I(0), I(1), z,
                I(0), I(0), I(0), I(1)>>)
Scaling4(x, y, z) ==
    MatrixNew(<<x, I(0), I(0), I(0),
                I(0), y, I(0), I(0),
                I(0), I(0), z, I(0),
                I(0), I(0), I(0), I(1)>>)
RotationX4 ==
    MatrixNew(<<I(1), I(0), I(0), I(0),
                I(0), I(0), I(-1), I(0),
                I(0), I(1), I(0), I(0),
                I(0), I(0), I(0), I(1)>>)
RotationY4 ==
    MatrixNew(<<I(0), I(0), I(1), I(0),
                I(0), I(1), I(0), I(0),
                I(-1), I(0), I(0), I(0),
                I(0), I(0), I(0), I(1)>>)
RotationZ4 ==
    MatrixNew(<<I(0), I(-1), I(0), I(0),
                I(1), I(0), I(0), I(0),
                I(0), I(0), I(1), I(0),
                I(0), I(0), I(0), I(1)>>)
Shearing4(xy, xz, yx, yz, zx, zy) ==
    MatrixNew(<<I(1), xy, xz, I(0),
                yx, I(1), yz, I(0),
                zx, zy, I(1), I(0),
                I(0), I(0), I(0), I(1)>>)

\* a faulty variant of translate: the translation is multiplied on the right
TranslatePost(m, x, y, z) == MatrixMul(m, Translation4(x, y, z))
\* the chained helpers: &translation * self, and so on
translate(m, x, y, z) == MatrixMul(Translation4(x, y, z), m)
scale(m, x, y, z) == MatrixMul(Scaling4(x, y, z), m)
rotate_x(m) == MatrixMul(RotationX4, m)
rotate_y(m) == MatrixMul(RotationY4, m)
rotate_z(m) == MatrixMul(RotationZ4, m)
shear(m, xy, xz, yx, yz, zx, zy) == MatrixMul(Shearing4(xy, xz, yx, yz, zx, zy), m)

-----------------------------------------------------------------------------
(* Ray                                                                     *)

Ray(origin, direction) == [origin |-> origin, direction |-> direction]
position(ray, t) == TAdd(ray.origin, TScale(ray.direction, t))
RayTransform(ray, m) == Ray(MulPoint(m, ray.origin), MulVector(m, ray.direction))

-----------------------------------------------------------------------------
(* Material, Light, Object                                                 *)

\* Material::new()
MaterialNew ==
    [color |-> I(1), ambient |-> R(1, 10), diffuse |-> R(9, 10),
     specular |-> R(9, 10), shininess |-> 200, reflectivity |-> I(0),
     transparency |-> I(0), refractive_index |-> I(1)]

Light(pos, intensity) == [position |-> pos, intensity |-> intensity]

\* Object::new(shape): identity transform, default material, no parent
ObjectNew(shape) ==
    [shape |-> shape, transform |-> identity, material |-> MaterialNew,
     parent |-> None, children |-> <<>>]

\* a faulty variant of with_transform: a fresh object of the same shape
\* gets the transform
WithTransformFresh(o, m) == [ObjectNew(o.shape) EXCEPT !.transform = m]
\* Object::with_transform: a clone of the receiver with the transform set
with_transform(o, m) == [o EXCEPT !.transform = m]
with_material(o, m) == [o EXCEPT !.material = m]
get_material(o) == o.material

Intersection(t, object) == [t |-> t, object |-> object]

-----------------------------------------------------------------------------
(* Sorting a list of intersections by t: Vec::sort_by is a stable sort.    *)

RECURSIVE InsertByT(_, _)
InsertByT(sorted, i) ==
    IF sorted = <<>> THEN <<i>>
    ELSE IF RLt(i.t, sorted[Len(sorted)].t)
         THEN Append(InsertByT(SubSeq(sorted, 1, Len(sorted) - 1), i), sorted[Len(sorted)])
         ELSE Append(sorted, i)

RECURSIVE SortByT(_)
SortByT(xs) ==
    IF xs = <<>> THEN <<>>
    ELSE InsertByT(SortByT(SubSeq(xs, 1, Len(xs) - 1)), xs[Len(xs)])

-----------------------------------------------------------------------------
(* Shapes: local intersection and local normal                             *)

PlaneEps == R(1, 100000)

\* Plane::local_intersect: the t of the crossing of y = 0, none for a ray
\* (nearly) parallel to the plane
PlaneLocalIntersect(ray) ==
    IF RLt(RAbs(ray.direction[2]), PlaneEps) THEN <<>>
    ELSE <<RDiv(RNeg(ray.origin[2]), ray.direction[2])>>

\* Sphere::local_intersect: the two roots of the quadratic, none when the
\* discriminant is negative
SphereRoots(a, b, discriminant) ==
    IF RLt(discriminant, I(0)) THEN <<>>
    ELSE <<RDiv(RSub(RNeg(b), RSqrt(discriminant)), RMul(I(2), a)),
           RDiv(RAdd(RNeg(b), RSqrt(discriminant)), RMul(I(2), a))>>
SphereQuadratic(a, b, c) ==
    SphereRoots(a, b, RSub(RPow(b, 2), RMul(RMul(I(4), a), c)))
\* sphere_to_ray = ray.origin - point(0, 0, 0) is ray.origin
SphereLocalIntersect(ray) ==
    SphereQuadratic(dot(ray.direction, ray.direction),
                    RMul(I(2), dot(ray.direction, ray.origin)),
                    RSub(dot(ray.origin, ray.origin), I(1)))

\* the cylinder of the model: Cylinder { minimum: 1.0, maximum: 2.0,
\* closed: true }, the capped cylinder of the tests of cylinder.rs
CylinderMinimum == I(1)
CylinderMaximum == I(2)
CylinderClosed == TRUE
CylinderEps == R(1, 1000000)

\* Cylinder::check_cap (z = 0)
check_cap(ray, t) ==
    LET x == RAdd(ray.origin[1], RMul(t, ray.direction[1]))
    IN  RLe(RPow(x, 2), I(1))

\* Cylinder::intersect_caps: the intersection it pushes for the cap at t
CapAt(object, ray, t) ==
    IF check_cap(ray, t) THEN <<Intersection(t, object)>> ELSE <<>>

\* Cylinder::intersect_caps: the intersections it pushes
intersect_caps(object, ray) ==
    IF ~CylinderClosed \/ RLt(RAbs(ray.direction[2]), CylinderEps) THEN <<>>
    ELSE CapAt(object, ray,
               RDiv(RSub(CylinderMinimum, ray.origin[2]), ray.direction[2]))
         \o CapAt(object, ray,
                  RDiv(RSub(CylinderMaximum, ray.origin[2]), ray.direction[2]))

\* Cylinder::local_intersect: the intersection it pushes for the root t of
\* the walls, whose height on the axis is y
WallHit(object, t, y) ==
    IF RLt(CylinderMinimum, y) /\ RLt(y, CylinderMaximum)
    THEN <<Intersection(t, object)>> ELSE <<>>
WallAt(object, ray, t) ==
    WallHit(object, t, RAdd(ray.origin[2], RMul(t, ray.direction[2])))

\* Cylinder::local_intersect from the discriminant on: nothing at all when
\* it is negative, else the walls (t0, then t1), then the caps
CylinderFrom(object, ray, a, b, discriminant) ==
    IF RLt(discriminant, I(0)) THEN <<>>
    ELSE WallAt(object, ray,
                RDiv(RSub(RNeg(b), RSqrt(discriminant)), RMul(I(2), a)))
         \o WallAt(object, ray,
                   RDiv(RAdd(RNeg(b), RSqrt(discriminant)), RMul(I(2), a)))
         \o intersect_caps(object, ray)
CylinderWalls(object, ray, a, b, c) ==
    CylinderFrom(object, ray, a, b, RSub(RPow(b, 2), RMul(RMul(I(4), a), c)))

\* Cylinder::local_intersect (z = 0): the walls, then the caps; every
\* intersection is built with the object handed in
CylinderLocalIntersect(object, ray) ==
    IF RGt(RAbs(RPow(ray.direction[1], 2)), CylinderEps)
    THEN CylinderWalls(object, ray, RPow(ray.direction[1], 2),
                       RMul(RMul(I(2), ray.origin[1]), ray.direction[1]),
                       RSub(RPow(ray.origin[1], 2), I(1)))
    ELSE intersect_caps(object, ray)

\* Cone { minimum, maximum, closed }
Cone(minimum, maximum, closed) ==
    [minimum |-> minimum, maximum |-> maximum, closed |-> closed]
ConeEps == R(1, 1000000)

\* Cone::check_cap (z = 0): x.powi(2) + z.powi(2) <= r.abs()
ConeCheckCap(ray, t, r) ==
    RLe(RPow(RAdd(ray.origin[1], RMul(t, ray.direction[1])), 2), RAbs(r))

\* Cone::intersect_caps: the intersection it pushes for the cap at y = r
ConeCapAt(object, ray, t, r) ==
    IF ConeCheckCap(ray, t, r) THEN <<Intersection(t, object)>> ELSE <<>>

\* Cone::intersect_caps: xs after the call
ConeIntersectCaps(cone, object, ray, xs) ==
    IF ~cone.closed \/ RLt(RAbs(ray.direction[2]), ConeEps) THEN xs
    ELSE xs
         \o ConeCapAt(object, ray,
                      RDiv(RSub(cone.minimum, ray.origin[2]), ray.direction[2]),
                      cone.minimum)
         \o ConeCapAt(object, ray,
                      RDiv(RSub(cone.maximum, ray.origin[2]), ray.direction[2]),
                      cone.maximum)

RECURSIVE ObjectIntersect(_, _)
RECURSIVE GroupLocalIntersect(_, _, _)

\* Group::local_intersect: the children's intersections, concatenated in the
\* order of the children and then sorted by t
GroupLocalIntersect(children, ray, k) ==
    IF k > Len(children) THEN <<>>
    ELSE ObjectIntersect(children[k], ray) \o GroupLocalIntersect(children, ray, k + 1)

\* a faulty variant of GroupIntersectSorted: the concatenation is not sorted
GroupIntersectUnsorted(children, ray) == GroupLocalIntersect(children, ray, 1)

GroupIntersectSorted(children, ray) == SortByT(GroupLocalIntersect(children, ray, 1))

\* the ts of a sphere or of a plane, each tagged with the object
Tagged(o, ts) == [k \in 1..Len(ts) |-> Intersection(ts[k], o)]

\* Shape::local_intersect(object, ray): the ray is in the object's space
LocalIntersect(o, local_ray) ==
    IF o.shape = "group" THEN GroupIntersectSorted(o.children, local_ray)
    ELSE IF o.shape = "cylinder" THEN CylinderLocalIntersect(o, local_ray)
    ELSE IF o.shape = "plane" THEN Tagged(o, PlaneLocalIntersect(local_ray))
    ELSE Tagged(o, SphereLocalIntersect(local_ray))

\* a faulty variant of ObjectIntersect: the intersections of a group are
\* tagged with the group
ObjectIntersectTagGroup(o, ray) ==
    LET local_ray == RayTransform(ray, inverse(o.transform))
        xs == GroupIntersectSorted(o.children, local_ray)
    IN  IF o.shape = "group" THEN [k \in 1..Len(xs) |-> Intersection(xs[k].t, o)]
        ELSE LocalIntersect(o, local_ray)

\* Object::intersect: the ray is taken into the object's space by the inverse
\* of the object's transform; each t of a shape is tagged with the object
ObjectIntersect(o, ray) == LocalIntersect(o, RayTransform(ray, inverse(o.transform)))

\* Shape::local_normal_at
LocalNormalAt(o, p) == IF o.shape = "plane" THEN <<I(0), I(1)>> ELSE p

\* Object::normal_at
NormalWith(o, inv, world_point) ==
    normalize(TransposeMulVector(inv, LocalNormalAt(o, MulPoint(inv, world_point))))
normal_at(o, world_point) == NormalWith(o, inverse(o.transform), world_point)

set_transform(o, m) == [o EXCEPT !.transform = m]

\* a faulty variant of world_to_object: the object's own inverse transform
\* is applied before the parent's conversion
RECURSIVE WorldToObjectOwnFirst(_, _)
WorldToObjectOwnFirst(o, world_point) ==
    LET point == MulPoint(inverse(o.transform), world_point)
    IN  IF o.parent # None
        THEN WorldToObjectOwnFirst(o.parent[1], point)
        ELSE point

\* Object::world_to_object: the parent converts the point first
RECURSIVE world_to_object(_, _)
world_to_object(o, world_point) ==
    IF o.parent # None
    THEN LET point == world_to_object(o.parent[1], world_point)
         IN  MulPoint(inverse(o.transform), point)
    ELSE MulPoint(inverse(o.transform), world_point)

\* the w component of transpose(m) * v for a vector v: the fourth row of
\* the transpose is the translation column of m
TransposeMulW(m, v) == RAdd(RMul(m.tx, v[1]), RMul(m.ty, v[2]))
\* Tuple::magnitude and Tuple::normalize of a tuple kept with its w, <<x, y, w>>
MagnitudeW(v) == RSqrt(RAdd(RAdd(RMul(v[1], v[1]), RMul(v[2], v[2])), RMul(v[3], v[3])))
NormalizeW(v) ==
    LET mag == MagnitudeW(v)
    IN  <<RDiv(v[1], mag), RDiv(v[2], mag), RDiv(v[3], mag)>>

\* world_normal.3 = 0.0
ZeroW(v) == <<v[1], v[2], I(0)>>

\* a faulty variant of normal_to_world: the parent converts the normal first
RECURSIVE NormalToWorldRootFirst(_, _)
NormalToWorldRootFirst(o, object_normal) ==
    LET n == IF o.parent # None
             THEN NormalToWorldRootFirst(o.parent[1], object_normal)
             ELSE object_normal
        m == inverse(o.transform)
        xy == TransposeMulVector(m, n)
    IN  NormalizeW(ZeroW(<<xy[1], xy[2], TransposeMulW(m, n)>>))

\* Object::normal_to_world, on a vector <<x, y, w>>
RECURSIVE normal_to_world(_, _)
normal_to_world(o, object_normal) ==
    LET m == inverse(o.transform)
        xy == TransposeMulVector(m, object_normal)
        product == <<xy[1], xy[2], TransposeMulW(m, object_normal)>>
        world_normal == NormalizeW(ZeroW(product))
    IN  IF o.parent # None
        THEN normal_to_world(o.parent[1], world_normal)
        ELSE world_normal

\* a faulty variant of add_child: the two objects are linked both ways, the
\* receiver getting the child as its parent
AddChildLinkedBack(self, child) ==
    IF self.shape = "group"
    THEN <<[self EXCEPT !.children = Append(@, [child EXCEPT !.parent = Some(self)]),
                        !.parent = Some([child EXCEPT !.parent = Some(self)])],
           [child EXCEPT !.parent = Some(self)]>>
    ELSE <<self, child>>

\* a faulty variant of add_child: the child gets its parent whatever the
\* shape of the receiver
AddChildAnyReceiver(self, child) ==
    <<IF self.shape = "group"
      THEN [self EXCEPT !.children = Append(@, [child EXCEPT !.parent = Some(self)])]
      ELSE self,
      [child EXCEPT !.parent = Some(self)]>>

\* Object::add_child, as the pair of the receiver and the child afterwards:
\* the child's parent is a copy of the receiver taken before the push, and
\* the receiver's list gets a copy of the child
add_child(self, child) ==
    LET parent_clone == self
    IN  IF self.shape = "group"
        THEN LET attached == [child EXCEPT !.parent = Some(parent_clone)]
             IN  <<[self EXCEPT !.children = Append(@, attached)], attached>>
        ELSE <<self, child>>

-----------------------------------------------------------------------------
(* Intersections::hit                                                      *)

\* a faulty variant of partial_cmp: equal numbers compare Greater
PartialCmpNeverEqual(a, b) == IF RLt(a, b) THEN "Less" ELSE "Greater"

\* f64::partial_cmp on numbers
partial_cmp(a, b) == IF RLt(a, b) THEN "Less" ELSE IF a = b THEN "Equal" ELSE "Greater"

\* a faulty variant of HitFilter: an intersection at t = 0 is dropped
HitFilterPositive(i) == RGt(i.t, I(0))

\* the filter of hit: the intersections that stay candidates
HitFilter(i) == RGe(i.t, I(0))

\* Iterator::min_by over the filtered elements of xs from position k on:
\* the running minimum best (a position of xs, 0 for none yet) is replaced
\* only by an element that compares smaller (compare(best, next) = Greater)
RECURSIVE MinByFrom(_, _, _)
MinByFrom(xs, k, best) ==
    IF k > Len(xs) THEN best
    ELSE IF ~HitFilter(xs[k]) THEN MinByFrom(xs, k + 1, best)
    ELSE IF best = 0 THEN MinByFrom(xs, k + 1, k)
    ELSE IF partial_cmp(xs[best].t, xs[k].t) = "Greater" THEN MinByFrom(xs, k + 1, k)
    ELSE MinByFrom(xs, k + 1, best)

\* hit returns a reference to an element of the list: its position, 0 for None
hit(xs) == MinByFrom(xs, 1, 0)

-----------------------------------------------------------------------------
(* Intersection::prepare_computations                                      *)

Contains(containers, o) == \E k \in 1..Len(containers) : containers[k] = o
Retain(containers, o) == SelectSeq(containers, LAMBDA x : x # o)

\* a faulty variant of Toggle: an object that is left stays in the containers
ToggleKeep(containers, o) ==
    IF Contains(containers, o) THEN containers ELSE Append(containers, o)

\* the containers after the object of an intersection is processed
Toggle(containers, o) ==
    IF Contains(containers, o) THEN Retain(containers, o) ELSE Append(containers, o)

\* the refractive index of the last container, 1.0 when there is none
LastIndex(containers) ==
    IF containers = <<>> THEN I(1)
    ELSE get_material(containers[Len(containers)]).refractive_index

\* a faulty variant of PrepareLoop: without a matching entry n2 is the index
\* of the last container left at the end of the list
RECURSIVE PrepareLoopToEnd(_, _, _, _, _, _)
PrepareLoopToEnd(self, xs, k, n1, n2, containers) ==
    IF k > Len(xs) THEN [n1 |-> n1, n2 |-> LastIndex(containers)]
    ELSE IF xs[k] = self
         THEN [n1 |-> LastIndex(containers),
               n2 |-> LastIndex(Toggle(containers, xs[k].object))]
         ELSE PrepareLoopToEnd(self, xs, k + 1, n1, n2, Toggle(containers, xs[k].object))

\* the loop over xs (from position k on) of prepare_computations; its result
\* is the pair of n1 and n2
RECURSIVE PrepareLoop(_, _, _, _, _, _)
PrepareLoop(self, xs, k, n1, n2, containers) ==
    IF k > Len(xs) THEN [n1 |-> n1, n2 |-> n2]
    ELSE LET i == xs[k]
             n1b == IF i = self THEN LastIndex(containers) ELSE n1
             after == Toggle(containers, i.object)
         IN  IF i = self THEN [n1 |-> n1b, n2 |-> LastIndex(after)]
             ELSE PrepareLoop(self, xs, k + 1, n1b, n2, after)

\* a faulty variant of Schlick: total internal reflection is not looked for
SchlickNoTotalReflection(n1, n2, cos) ==
    LET r0 == RPow(RDiv(RSub(n1, n2), RAdd(n1, n2)), 2)
    IN  RAdd(r0, RMul(RSub(I(1), r0), RPow(RSub(I(1), RAbs(cos)), 5)))

\* the Schlick reflectance of the record
Schlick(n1, n2, cos) ==
    IF RGt(n1, n2)
    THEN LET n == RDiv(n1, n2)
             sin2_t == RMul(RPow(n, 2), RSub(I(1), RPow(cos, 2)))
         IN  IF RGt(sin2_t, I(1)) THEN I(1)
             ELSE LET r0 == RPow(RDiv(RSub(n1, n2), RAdd(n1, n2)), 2)
                  IN  RAdd(r0, RMul(RSub(I(1), r0), RPow(RSub(I(1), RAbs(cos)), 5)))
    ELSE LET r0 == RPow(RDiv(RSub(n1, n2), RAdd(n1, n2)), 2)
         IN  RAdd(r0, RMul(RSub(I(1), r0), RPow(RSub(I(1), RAbs(cos)), 5)))

EPSILON == R(1, 10000)

prepare_computations(self, ray, xs) ==
    LET n == PrepareLoop(self, xs, 1, I(1), I(1), <<>>)
        normal0 == normal_at(self.object, position(ray, self.t))
        eyev == TNeg(ray.direction)
        inside == RLt(dot(normal0, eyev), I(0))
        normalv == IF inside THEN TNeg(normal0) ELSE normal0
        point == position(ray, self.t)
    IN  [t |-> self.t, object |-> self.object, point |-> point, eyev |-> eyev,
         normalv |-> normalv, reflectv |-> reflect(ray.direction, normalv),
         inside |-> inside,
         over_point |-> TAdd(point, TScale(normalv, EPSILON)),
         under_point |-> TSub(point, TScale(normalv, EPSILON)),
         n1 |-> n.n1, n2 |-> n.n2,
         schlick |-> Schlick(n.n1, n.n2, dot(eyev, normalv))]

-----------------------------------------------------------------------------
(* World: intersect, lighting, is_shadowed                                 *)

World(objects, lights) == [objects |-> objects, lights |-> lights]

RECURSIVE WorldIntersectFrom(_, _, _)
WorldIntersectFrom(w, ray, k) ==
    IF k > Len(w.objects) THEN <<>>
    ELSE ObjectIntersect(w.objects[k], ray) \o WorldIntersectFrom(w, ray, k + 1)

\* World::intersect: the intersections of every object, sorted by t
WorldIntersect(w, ray) == SortByT(WorldIntersectFrom(w, ray, 1))

\* Material::lighting (without a pattern)
lighting(m, light, pos, eyev, normalv, in_shadow) ==
    LET effective_color == RMul(m.color, light.intensity)
        lightv == normalize(TSub(light.position, pos))
        ambient == RMul(effective_color, m.ambient)
        light_dot_normal == dot(lightv, normalv)
        diffuse == IF RLt(light_dot_normal, I(0)) THEN black
                   ELSE RMul(RMul(effective_color, m.diffuse), light_dot_normal)
        reflect_dot_eye == dot(reflect(TNeg(lightv), normalv), eyev)
        specular == IF RLt(light_dot_normal, I(0)) \/ RLe(reflect_dot_eye, I(0)) THEN black
                    ELSE RMul(RMul(light.intensity, m.specular),
                              RPow(reflect_dot_eye, m.shininess))
    IN  IF in_shadow THEN ambient ELSE RAdd(RAdd(ambient, diffuse), specular)

\* a faulty variant of ShadowLight: the last light is tested
ShadowLightLast(w) == w.lights[Len(w.lights)]

\* the light is_shadowed tests against
ShadowLight(w) == w.lights[1]

\* self.lights[0] of is_shadowed is out of bounds
NoFirstLight(w) == Len(w.lights) = 0

\* World::is_shadowed; indexing an empty light list panics
is_shadowed(w, point) ==
    IF NoFirstLight(w) THEN "panic"
    ELSE LET v == TSub(ShadowLight(w).position, point)
             distance == magnitude(v)
             r == Ray(point, normalize(v))
             xs == WorldIntersect(w, r)
         IN  hit(xs) # 0 /\ RLt(xs[hit(xs)].t, distance)

\* the loop of shade_hit over the lights, from light k on
RECURSIVE SurfaceFrom(_, _, _)
SurfaceFrom(w, record, k) ==
    IF k > Len(w.lights) THEN black
    ELSE RAdd(lighting(get_material(record.object), w.lights[k], record.over_point,
                       record.eyev, record.normalv, is_shadowed(w, record.over_point)),
              SurfaceFrom(w, record, k + 1))

Surface(w, record) == SurfaceFrom(w, record, 1)

\* a faulty variant of SurfacePanics: is_shadowed is evaluated once, ahead of
\* the loop over the lights
SurfacePanicsShadowFirst(w) == NoFirstLight(w)

\* the loop of shade_hit panics when a call of is_shadowed in its body does;
\* the body runs once per light
SurfacePanics(w) == \E k \in 1..Len(w.lights) : NoFirstLight(w)

-----------------------------------------------------------------------------
(* The shading recursion of World as a machine with an explicit call       *)
(* stack.  A frame is one invocation of color_at, shade_hit,               *)
(* reflected_color or refracted_color; pc is the place the invocation has  *)
(* reached.  A callee leaves its result in ret and pops its frame.         *)

\* the values of the fields a frame or a call does not use
NoRay == Ray(<<I(0), I(0)>>, <<I(0), I(0)>>)
NoObject == ObjectNew("none")
NoRecord ==
    [t |-> I(0), object |-> NoObject, point |-> NoRay.origin, eyev |-> NoRay.origin,
     normalv |-> NoRay.origin, reflectv |-> NoRay.origin, inside |-> FALSE,
     over_point |-> NoRay.origin, under_point |-> NoRay.origin,
     n1 |-> I(0), n2 |-> I(0), schlick |-> I(0)]

Frame(fn, ray, record, depth) ==
    [fn |-> fn, pc |-> "start", ray |-> ray, record |-> record, depth |-> depth,
     surface |-> black, reflected |-> black, refracted |-> black, again |-> black]

Top == stack[Len(stack)]
Running(fn, pc) == phase = "running" /\ stack # <<>> /\ Top.fn = fn /\ Top.pc = pc

\* the frame on top replaced by f, and a callee frame pushed above it
CallFrom(f, callee) == Append([stack EXCEPT ![Len(stack)] = f], callee)
\* the frame on top popped
Popped == SubSeq(stack, 1, Len(stack) - 1)
\* the top-level call has returned once its frame is popped
PhaseAfterPop == IF Len(stack) = 1 THEN "done" ELSE "running"

Return(v) ==
    /\ stack' = Popped
    /\ ret' = v
    /\ phase' = PhaseAfterPop
    /\ UNCHANGED <<world, call, out, sceneVars, renderVars, matrixVars>>

\* a panic unwinds every frame and ends the call of the client
Unwind ==
    /\ stack' = <<>>
    /\ out' = [out EXCEPT !.panicked = TRUE]
    /\ phase' = "done"
    /\ UNCHANGED <<world, call, ret, sceneVars, renderVars, matrixVars>>

Invoke(f, callee) ==
    /\ stack' = CallFrom(f, callee)
    /\ UNCHANGED <<world, call, ret, out, phase, sceneVars, renderVars, matrixVars>>

\* the list of intersections color_at hands to prepare_computations
ColorAtPrepareList(xs) == <<>>

\* color_at: intersect the world, find the hit; black without a hit, else
\* prepare the record and call shade_hit
ColorAtStart ==
    /\ Running("color_at", "start")
    /\ LET xs == WorldIntersect(world, Top.ray)
       IN  IF hit(xs) = 0 THEN Return(black)
           ELSE Invoke([Top EXCEPT !.pc = "shade_hit"],
                       Frame("shade_hit", NoRay,
                             prepare_computations(xs[hit(xs)], Top.ray,
                                                  ColorAtPrepareList(xs)),
                             Top.depth))

\* color_at returns what shade_hit returned
ColorAtReturn ==
    /\ Running("color_at", "shade_hit")
    /\ Return(ret)

\* shade_hit: the surface colour over the lights, then reflected_color
ShadeHitSurface ==
    /\ Running("shade_hit", "start")
    /\ IF SurfacePanics(world) THEN Unwind
       ELSE Invoke([Top EXCEPT !.pc = "reflected", !.surface = Surface(world, Top.record)],
                   Frame("reflected_color", NoRay, Top.record, Top.depth))

\* shade_hit: let reflected = ...; then refracted_color
ShadeHitReflected ==
    /\ Running("shade_hit", "reflected")
    /\ Invoke([Top EXCEPT !.pc = "refracted", !.reflected = ret],
              Frame("refracted_color", NoRay, Top.record, Top.depth))

\* a faulty variant of UsesSchlick: one of the two coefficients suffices
UsesSchlickEither(material) ==
    RGt(material.reflectivity, I(0)) \/ RGt(material.transparency, I(0))

\* which result formula shade_hit uses
UsesSchlick(material) ==
    RGt(material.reflectivity, I(0)) /\ RGt(material.transparency, I(0))

SchlickBlend(surface, reflected, refracted, reflectance) ==
    RAdd(RAdd(surface, RMul(reflected, reflectance)),
         RMul(refracted, RSub(I(1), reflectance)))

\* shade_hit: let refracted = ...; the blended result for a material that is
\* reflective and transparent, else the sum is evaluated: reflected_color again
ShadeHitRefracted ==
    /\ Running("shade_hit", "refracted")
    /\ IF UsesSchlick(get_material(Top.record.object))
       THEN Return(SchlickBlend(Top.surface, Top.reflected, ret, Top.record.schlick))
       ELSE Invoke([Top EXCEPT !.pc = "reflected_again", !.refracted = ret],
                   Frame("reflected_color", NoRay, Top.record, Top.depth))

\* shade_hit: surface + self.reflected_color(..) evaluated; then refracted_color
ShadeHitReflectedAgain ==
    /\ Running("shade_hit", "reflected_again")
    /\ Invoke([Top EXCEPT !.pc = "refracted_again", !.again = ret],
              Frame("refracted_color", NoRay, Top.record, Top.depth))

\* shade_hit: surface + reflected_color + refracted_color
ShadeHitSum ==
    /\ Running("shade_hit", "refracted_again")
    /\ Return(RAdd(RAdd(Top.surface, Top.again), ret))

\* a faulty variant of DepthSpent: depth 0 is let through
DepthSpentBelowZero(depth) == depth < 0

\* the first test of reflected_color and of refracted_color: depth <= 0
DepthSpent(depth) == depth <= 0

\* a faulty variant of NextDepth: the depth is handed on unchanged
NextDepthSame(depth) == depth

\* the depth reflected_color and refracted_color hand to color_at
NextDepth(depth) == depth - 1

\* a faulty variant of ReflectRay: the ray starts at the point of the hit
ReflectRayAtPoint(record) == Ray(record.point, record.reflectv)

\* the reflection ray of reflected_color
ReflectRay(record) == Ray(record.over_point, record.reflectv)

\* reflected_color: black at depth 0 and for a material that does not
\* reflect; else color_at of the reflection ray with depth - 1
ReflectedColorStart ==
    /\ Running("reflected_color", "start")
    /\ IF DepthSpent(Top.depth) THEN Return(black)
       ELSE IF get_material(Top.record.object).reflectivity = I(0) THEN Return(black)
       ELSE Invoke([Top EXCEPT !.pc = "color_at"],
                   Frame("color_at", ReflectRay(Top.record), NoRecord,
                         NextDepth(Top.depth)))

ReflectedColorReturn ==
    /\ Running("reflected_color", "color_at")
    /\ Return(RMul(ret, get_material(Top.record.object).reflectivity))

\* sin2_t of refracted_color
Sin2T(record) ==
    RMul(RPow(RDiv(record.n1, record.n2), 2),
         RSub(I(1), RPow(dot(record.eyev, record.normalv), 2)))

\* a faulty variant of RefractRay: the ray starts over the surface
RefractRayOver(record) == Ray(record.over_point, TNeg(record.eyev))

\* the refraction ray of refracted_color
RefractRay(record) ==
    LET n_ratio == RDiv(record.n1, record.n2)
        cos_i == dot(record.eyev, record.normalv)
        cos_t == RSqrt(RSub(I(1), Sin2T(record)))
        direction == TSub(TScale(record.normalv, RSub(RMul(n_ratio, cos_i), cos_t)),
                          TScale(record.eyev, n_ratio))
    IN  Ray(record.under_point, direction)

\* refracted_color: black at depth 0, for an opaque material and under total
\* internal reflection; else color_at of the refraction ray with depth - 1
RefractedColorStart ==
    /\ Running("refracted_color", "start")
    /\ IF DepthSpent(Top.depth) THEN Return(black)
       ELSE IF get_material(Top.record.object).transparency = I(0) THEN Return(black)
       ELSE IF RGt(Sin2T(Top.record), I(1)) THEN Return(black)
       ELSE Invoke([Top EXCEPT !.pc = "color_at"],
                   Frame("color_at", RefractRay(Top.record), NoRecord, NextDepth(Top.depth)))

RefractedColorReturn ==
    /\ Running("refracted_color", "color_at")
    /\ Return(RMul(ret, get_material(Top.record.object).transparency))

-----------------------------------------------------------------------------
(* Canvas and Camera (canvas.rs, camera.rs).  A colour of the canvas is    *)
(* kept as the expression that produced it: black, or the result of        *)
(* color_at for a world and a ray, which render stores without looking     *)
(* into it.  Directions keep their third component here.                   *)

Ray3(origin, direction) == [origin |-> origin, direction |-> direction]
BlackPixel ==
    [fn |-> "black", world |-> World(<<>>, <<>>),
     ray |-> Ray3(<<I(0), I(0), I(0)>>, <<I(0), I(0), I(0)>>)]
\* world.color_at(&ray): a function of the world and the ray
ColorAtOf(w, ray) == [fn |-> "color_at", world |-> w, ray |-> ray]

\* Canvas::new
CanvasNew(width, height) ==
    [width |-> width, height |-> height,
     pixels |-> [i \in 1..(width * height) |-> BlackPixel]]

\* Camera::new(hsize, vsize, PI / 2): half_view = tan(PI / 4) = 1
CameraNew(hsize, vsize) ==
    LET half_view == I(1)
        aspect == R(hsize, vsize)
        half_width == IF RGe(aspect, I(1)) THEN half_view ELSE RMul(half_view, aspect)
        half_height == IF RGe(aspect, I(1)) THEN RDiv(half_view, aspect) ELSE half_view
    IN  [hsize |-> hsize, vsize |-> vsize, half_width |-> half_width,
         half_height |-> half_height,
         pixel_size |-> RDiv(RMul(half_width, I(2)), I(hsize)),
         transform |-> identity]

\* Camera::ray_for_pixel, with the direction pixel - origin before it is
\* normalized (its length is not a rational number)
ray_for_pixel(c, px, py) ==
    LET xoffset == RMul(RAdd(I(px), R(1, 2)), c.pixel_size)
        yoffset == RMul(RAdd(I(py), R(1, 2)), c.pixel_size)
        world_x == RSub(c.half_width, xoffset)
        world_y == RSub(c.half_height, yoffset)
        pixel == MulPoint(inverse(c.transform), <<world_x, world_y>>)
        origin == MulPoint(inverse(c.transform), <<I(0), I(0)>>)
    IN  Ray3(<<origin[1], origin[2], I(0)>>,
             <<RSub(pixel[1], origin[1]), RSub(pixel[2], origin[2]), I(-1)>>)

\* a faulty variant of ChunkSize: the slice is cut into chunks of vsize
ChunkSizeV(c) == c.vsize
\* par_chunks_mut(self.hsize): the length of a chunk
ChunkSize(c) == c.hsize
\* the chunks of a slice of length len: their number, and the length of
\* chunk y (the last one may be shorter)
NumChunks(len, size) == (len + size - 1) \div size
ChunkLen(len, size, y) == IF (y + 1) * size <= len THEN size ELSE len - y * size

-----------------------------------------------------------------------------
(* Scenes and client calls: the inputs of the model.                       *)

MaxDepth == 2       \* the depths color_at and the colour functions are called with
MaxLen == 3         \* the longest intersection list handed to hit and prepare_computations
MaxChildren == 2    \* the most children of a group

P(x, y) == <<x, y>>
Up == P(I(0), I(1))
Down == P(I(0), I(-1))

\* helper::glass_sphere's material
GlassMaterial ==
    [MaterialNew EXCEPT !.ambient = I(0), !.diffuse = R(3, 10), !.specular = R(7, 10),
                        !.reflectivity = R(1, 2), !.transparency = I(1),
                        !.refractive_index = R(3, 2)]
Mirror == [MaterialNew EXCEPT !.reflectivity = I(1)]
Sphere == ObjectNew("sphere")
Plane == ObjectNew("plane")
Cylinder == ObjectNew("cylinder")
GlassSphere == with_material(Sphere, GlassMaterial)

\* two mutually facing planes with reflectivity 1.0 and a light between them
MirrorWorld ==
    World(<<with_transform(with_material(Plane, Mirror), translation(I(0), I(-1))),
            with_transform(with_material(Plane, Mirror), translation(I(0), I(1)))>>,
          <<Light(P(I(0), I(0)), I(1))>>)

\* a glass sphere over an opaque floor; the second light lies under the sphere
GlassWorld ==
    World(<<GlassSphere, with_transform(Plane, translation(I(0), I(-2)))>>,
          <<Light(P(I(0), I(2)), I(1)), Light(P(I(0), R(-3, 2)), I(1))>>)

\* an opaque sphere around a smaller one (the default world's objects)
OpaqueWorld ==
    World(<<with_material(Sphere, [MaterialNew EXCEPT !.color = R(4, 5),
                                       !.diffuse = R(7, 10), !.specular = R(1, 5)]),
            with_transform(Sphere, scaling(R(1, 2), R(1, 2)))>>,
          <<Light(P(I(0), I(3)), I(1))>>)

\* a floor that reflects and transmits, over an opaque ball and under an
\* opaque ceiling; the first light is under the floor and the second one over it
FloorWorld ==
    World(<<with_transform(with_material(Plane,
                [MaterialNew EXCEPT !.reflectivity = R(1, 2), !.transparency = R(1, 2),
                                    !.refractive_index = R(3, 2)]),
                translation(I(0), I(-1))),
            with_transform(with_material(Sphere, [MaterialNew EXCEPT !.ambient = R(1, 2)]),
                           translation(I(0), I(-3))),
            with_transform(Plane, translation(I(0), I(1)))>>,
          <<Light(P(I(0), R(-3, 2)), I(1)), Light(P(I(0), R(1, 2)), I(1))>>)

NoWorld == World(<<>>, <<>>)

\* the two mirrors without a light
DarkWorld == World(MirrorWorld.objects, <<>>)

Worlds == {MirrorWorld, GlassWorld, OpaqueWorld, FloorWorld, DarkWorld}

\* rays along the y axis, and the depths of the calls
AxisRays == {Ray(P(I(0), I(0)), Up), Ray(P(I(0), I(0)), Down), Ray(P(I(0), I(2)), Down)}
Depths == 0..MaxDepth

\* a ray that crosses the glass sphere off its axis (at x = 4/5)
ObliqueRay == Ray(P(R(4, 5), I(2)), Down)

Call(fn) ==
    [fn |-> fn, ray |-> NoRay, depth |-> 0, record |-> NoRecord, point |-> NoRay.origin,
     xs |-> <<>>, self |-> Intersection(I(0), NoObject), k |-> 0, object |-> NoObject,
     cone |-> Cone(I(0), I(0), FALSE)]

\* the records a client prepares: an intersection of a ray with the world,
\* prepared from the ray and the whole list or (as color_at does) an empty one
RecordsOf(w, ray) ==
    LET xs == WorldIntersect(w, ray)
    IN  {prepare_computations(xs[k], ray, l) : k \in 1..Len(xs), l \in {xs, <<>>}}

AxisRecords(w) == UNION {RecordsOf(w, r) : r \in AxisRays}

ColorCalls(w) ==
    {[Call("color_at") EXCEPT !.ray = r, !.depth = d] : r \in AxisRays, d \in Depths}
    \cup {[Call(fn) EXCEPT !.record = rec, !.depth = d] :
            fn \in {"shade_hit", "reflected_color", "refracted_color"},
            rec \in AxisRecords(w), d \in Depths}

\* refracted_color on the records of the oblique ray: the calls that cast no
\* ray (the rays the model casts stay on the axis)
CastsNoRay(rec, d) ==
    d = 0 \/ get_material(rec.object).transparency = I(0) \/ RGt(Sin2T(rec), I(1))

ObliqueCalls ==
    {[Call("refracted_color") EXCEPT !.record = c[1], !.depth = c[2]] :
        c \in {x \in RecordsOf(GlassWorld, ObliqueRay) \X Depths : CastsNoRay(x[1], x[2])}}

ShadowPoints == {P(I(0), I(-3)), P(I(0), R(3, 2)), P(I(0), R(-5, 4)),
                 P(I(0), R(5, 2)), P(I(0), R(-5, 2))}

ShadowCalls == {[Call("is_shadowed") EXCEPT !.point = p] : p \in ShadowPoints}

\* the spheres A, B, C of refractive index 1.5, 2.0, 2.5
GlassA == with_material(with_transform(Sphere, scaling(I(2), I(2))), GlassMaterial)
GlassB ==
    with_material(with_transform(Sphere, translation(I(0), R(-1, 4))),
                  [GlassMaterial EXCEPT !.refractive_index = I(2)])
GlassC ==
    with_material(with_transform(Sphere, translation(I(0), R(1, 4))),
                  [GlassMaterial EXCEPT !.refractive_index = R(5, 2)])

\* the ray of the lists, and the list A, B, C, B, C, A
ListRay == Ray(P(I(0), I(-4)), Up)
ExampleXs ==
    <<Intersection(I(2), GlassA), Intersection(R(11, 4), GlassB),
      Intersection(R(13, 4), GlassC), Intersection(R(19, 4), GlassB),
      Intersection(R(21, 4), GlassC), Intersection(I(6), GlassA)>>

ListTs == {I(-1), I(0), I(2)}
ListItems == {Intersection(t, o) : t \in ListTs, o \in {GlassA, GlassB}}
Lists == UNION {[1..n -> ListItems] : n \in 0..MaxLen}

HitCalls == {[Call("hit") EXCEPT !.xs = l] : l \in Lists}

\* prepare_computations on the k-th entry of a list, on an intersection that
\* is not in the list (k = 0), and on each entry of the list A, B, C, B, C, A
PrepareItems == {Intersection(t, o) : t \in {I(2), I(3)}, o \in {GlassA, GlassB, GlassC}}
PrepareLists == UNION {[1..n -> PrepareItems] : n \in 0..MaxLen}
Outsider == Intersection(I(1), GlassC)

\* rays that cross the glass sphere off its axis, at x = 3/5 and x = 4/5
ObliqueRays == {Ray(P(R(3, 5), I(2)), Down), ObliqueRay}

\* a ball of refractive index 2.0 under the surface of a medium of index
\* 1.5, and a ray that dives through the surface and crosses the ball off
\* its axis (at x = 3/5): it leaves the ball at an angle whose sine is 3/5
PoolWorld ==
    World(<<with_transform(with_material(Plane, GlassMaterial), translation(I(0), I(3))),
            with_material(Sphere, [GlassMaterial EXCEPT !.refractive_index = I(2)])>>,
          <<Light(P(I(0), I(4)), I(1))>>)
PoolRay == Ray(P(R(3, 5), I(4)), Down)
PoolXs == WorldIntersect(PoolWorld, PoolRay)

PrepareCalls ==
    UNION {{[Call("prepare_computations") EXCEPT !.xs = l, !.self = l[k], !.k = k,
                                                 !.ray = ListRay] : k \in 1..Len(l)}
           \cup {[Call("prepare_computations") EXCEPT !.xs = l, !.self = Outsider,
                                                      !.ray = ListRay]} :
           l \in PrepareLists \cup {ExampleXs}}
    \cup UNION {{[Call("prepare_computations") EXCEPT
                     !.xs = WorldIntersect(GlassWorld, r),
                     !.self = WorldIntersect(GlassWorld, r)[k], !.k = k, !.ray = r] :
                 k \in 1..Len(WorldIntersect(GlassWorld, r))} : r \in ObliqueRays}
    \cup {[Call("prepare_computations") EXCEPT
              !.xs = PoolXs, !.self = PoolXs[k], !.k = k, !.ray = PoolRay] :
          k \in 1..Len(PoolXs)}

\* groups: the children are taken from Leaves in any order; s3's first
\* intersection ties with s2's second one for the ray from (0, -5)
Leaves ==
    <<Sphere, with_transform(Sphere, translation(I(0), I(-3))),
      with_transform(Sphere, scaling(I(2), I(2))),
      with_transform(Plane, translation(I(0), I(1))),
      with_transform(Cylinder, translation(I(0), I(-1)))>>

Group(transform, children) ==
    [ObjectNew("group") EXCEPT !.transform = transform, !.children = children]

Inner == Group(translation(I(0), I(1)), <<Leaves[1], Leaves[2]>>)
Candidates == {Leaves[k] : k \in 1..Len(Leaves)} \cup {Inner}

ChildLists ==
    {l \in UNION {[1..n -> Candidates] : n \in 0..MaxChildren} :
        \A a, b \in 1..Len(l) : a # b => l[a] # l[b]}

GroupTransforms == {identity, translation(I(0), I(-1)), scaling(I(2), I(2))}
GroupRays == {Ray(P(I(0), I(-5)), Up), Ray(P(I(0), I(5)), Down)}

IntersectCalls ==
    {[Call("intersect") EXCEPT !.object = Group(m, l), !.ray = r] :
        m \in GroupTransforms, l \in ChildLists, r \in GroupRays}

\* Object::intersect called on an object that is not a group; WallRay
\* crosses the walls of the cylinder between its caps
WallRay == Ray(P(I(-5), R(3, 2)), P(I(1), I(0)))
ShapeCalls ==
    {[Call("intersect") EXCEPT !.object = Leaves[k], !.ray = r] :
        k \in 1..Len(Leaves), r \in GroupRays}
    \cup {[Call("intersect") EXCEPT !.object = o, !.ray = WallRay] :
             o \in {Cylinder, Leaves[5]}}

\* Cone::intersect_caps on truncated cones, closed or not, with rays in the
\* plane z = 0: along the axis direction, across it, and slanted
ConeBounds == {R(1, 2), I(1), I(2)}
Cones == {Cone(RNeg(mn), mx, cl) : mn \in ConeBounds, mx \in ConeBounds, cl \in BOOLEAN}
ConeRays ==
    {Ray(P(x, I(0)), d) : x \in {I(0), R(3, 5), R(3, 2)},
                          d \in {Up, P(I(1), I(0)), P(R(3, 5), R(4, 5))}}
ConeObject == ObjectNew("cone")
ConeCalls ==
    {[Call("intersect_caps") EXCEPT !.cone = c, !.object = ConeObject, !.ray = r, !.xs = l] :
        c \in Cones, r \in ConeRays, l \in {<<>>, <<Intersection(I(7), ConeObject)>>}}

Inputs ==
    UNION {{<<w, c>> : c \in ColorCalls(w) \cup ShadowCalls} : w \in Worlds}
    \cup {<<GlassWorld, c>> : c \in ObliqueCalls}
    \cup {<<NoWorld, c>> : c \in HitCalls \cup PrepareCalls \cup IntersectCalls \cup ShapeCalls}
    \cup {<<NoWorld, c>> : c \in ConeCalls}

\* the variables of a client that builds a scene graph, as in the tests of
\* object.rs: two groups, a sphere, and a variable t for a derived object
MaxOps == 2
Names == {"g1", "g2", "s", "t"}
NoOwner == ""
\* g1, g2 and s after the set_transform and with_transform calls that open
\* the tests of object.rs (rotation_z for the rotation_y of the tests)
SceneObjects ==
    [g1 |-> set_transform(ObjectNew("group"), rotation_z),
     g2 |-> set_transform(ObjectNew("group"), scaling(I(2), I(2))),
     s |-> with_transform(Sphere, translation(I(5), I(0))),
     t |-> Plane]
\* the transforms the client gives to a group and to another object
SceneTransforms(o) ==
    IF o.shape = "group"
    THEN {rotation_z, scaling(I(2), I(2)), translation(I(0), I(3))}
    ELSE {scaling(R(3, 4), R(4, 3)), translation(I(5), I(0))}
SceneMaterials == {GlassMaterial, Mirror}
Step(op, self, arg, n) == [op |-> op, self |-> self, arg |-> arg, n |-> n]
NoStep == Step("none", "", "", 0)

\* the cameras and worlds of the render calls: every size up to MaxSize in
\* each direction, a field of view of pi / 2
MaxSize == 3
Cameras == {CameraNew(h, v) : h \in 1..MaxSize, v \in 1..MaxSize}
RenderWorlds == {MirrorWorld, GlassWorld}
\* the calls of a client of Matrix: the lists handed to Matrix::new, of
\* lengths 0, 1, 3, 4, 9, 16 and 25, and the arguments of the helpers
MaxCalls == 3
Entries(ints) == [i \in 1..Len(ints) |-> I(ints[i])]
MatrixData ==
    {<<>>, <<I(7)>>, Entries(<<1, 2, 3>>),
     Entries(<<1, 2, 2, 4>>), Entries(<<1, 2, 3, 4>>), <<R(1, 100), I(0), I(0), I(1)>>,
     Entries(<<1, 2, 6, -5, 8, -4, 2, 6, 4>>), Entries(<<1, 2, 3, 2, 4, 6, 0, 1, 5>>),
     Entries(<<-4, 2, -2, -3, 9, 6, 2, 6, 0, -5, 1, -5, 0, 0, 0, 0>>),
     Entries(<<1, 0, 0, 2, 0, 1, 3, 0, 0, 0, 1, 0, 0, 1, 0, 1>>),
     <<R(1, 100), I(0), I(0), I(0), I(0), I(1), I(0), I(0),
       I(0), I(0), I(1), I(0), I(0), I(0), I(0), I(1)>>,
     [i \in 1..25 |-> IF (i - 1) % 6 = 0 THEN I(1) ELSE I(0)]}
MStep(op, n) == [op |-> op, n |-> n]

-----------------------------------------------------------------------------
(* The client.                                                             *)

\* the results of is_shadowed, hit (a position of the list, 0 for None),
\* prepare_computations and intersect
NoOut == [shadowed |-> FALSE, hit |-> 0, comps |-> NoRecord, xs |-> <<>>, panicked |-> FALSE]

\* the parts of the state a specification leaves alone
SceneIdle ==
    /\ objs = SceneObjects
    /\ owner = [n \in Names |-> NoOwner]
    /\ step = NoStep

\* no shading call is made
ShadingIdle ==
    /\ call = Call("none")
    /\ stack = <<>>
    /\ ret = black
    /\ out = NoOut
    /\ phase = "ready"

RenderIdle ==
    /\ camera = CameraNew(1, 1)
    /\ image = CanvasNew(0, 0)
    /\ cursor = <<>>
    /\ writes = <<>>
    /\ rstate = "ready"
MatrixIdle ==
    /\ mat = MatrixIdentity
    /\ chain = <<MatrixIdentity>>
    /\ mstep = MStep("none", 0)

Init ==
    /\ \E i \in Inputs : world = i[1] /\ call = i[2]
    /\ stack = <<>>
    /\ ret = black
    /\ out = NoOut
    /\ phase = "ready"
    /\ SceneIdle
    /\ RenderIdle
    /\ MatrixIdle

Ready(fn) == phase = "ready" /\ call.fn = fn

Enter(frame) ==
    /\ stack' = <<frame>>
    /\ phase' = "running"
    /\ UNCHANGED <<world, call, ret, out, sceneVars, renderVars, matrixVars>>

Answer(v) ==
    /\ out' = v
    /\ phase' = "done"
    /\ UNCHANGED <<world, call, stack, ret, sceneVars, renderVars, matrixVars>>

CallColorAt == Ready("color_at") /\ Enter(Frame("color_at", call.ray, NoRecord, call.depth))
CallShadeHit == Ready("shade_hit") /\ Enter(Frame("shade_hit", NoRay, call.record, call.depth))
CallReflectedColor ==
    Ready("reflected_color") /\ Enter(Frame("reflected_color", NoRay, call.record, call.depth))
CallRefractedColor ==
    Ready("refracted_color") /\ Enter(Frame("refracted_color", NoRay, call.record, call.depth))
CallIsShadowed ==
    /\ Ready("is_shadowed")
    /\ IF NoFirstLight(world) THEN Unwind
       ELSE Answer([NoOut EXCEPT !.shadowed = is_shadowed(world, call.point)])
CallHit == Ready("hit") /\ Answer([NoOut EXCEPT !.hit = hit(call.xs)])
CallPrepareComputations ==
    /\ Ready("prepare_computations")
    /\ Answer([NoOut EXCEPT !.comps = prepare_computations(call.self, call.ray, call.xs)])
CallIntersect == Ready("intersect") /\ Answer([NoOut EXCEPT !.xs = ObjectIntersect(call.object, call.ray)])
CallIntersectCaps ==
    /\ Ready("intersect_caps")
    /\ Answer([NoOut EXCEPT !.xs = ConeIntersectCaps(call.cone, call.object, call.ray, call.xs)])

Next ==
    \/ CallColorAt
    \/ CallShadeHit
    \/ CallReflectedColor
    \/ CallRefractedColor
    \/ CallIsShadowed
    \/ CallHit
    \/ CallPrepareComputations
    \/ CallIntersect
    \/ CallIntersectCaps
    \/ ColorAtStart
    \/ ColorAtReturn
    \/ ShadeHitSurface
    \/ ShadeHitReflected
    \/ ShadeHitRefracted
    \/ ShadeHitReflectedAgain
    \/ ShadeHitSum
    \/ ReflectedColorStart
    \/ ReflectedColorReturn
    \/ RefractedColorStart
    \/ RefractedColorReturn

Spec == Init /\ [][Next]_vars

\* the program is sequential: a call that has not finished takes its next
\* step.  This is WF_vars(Next) with ENABLED <<Next>>_vars written out: Next
\* is enabled exactly in the states whose phase is not "done"
FairSpec == Spec /\ ([]<>(phase = "done") \/ []<><<Next>>_vars)

-----------------------------------------------------------------------------
(* A client that builds a scene graph: it attaches objects to groups,      *)
(* changes transforms in place and derives objects with with_transform and *)
(* with_material.                                                          *)

SceneInit == ShadingIdle /\ world = NoWorld /\ SceneIdle /\ RenderIdle /\ MatrixIdle

\* self.add_child(&mut child): two distinct variables
AddChild(self, child) ==
    /\ step.n < MaxOps
    /\ self # child
    /\ LET after == add_child(objs[self], objs[child])
       IN  objs' = [objs EXCEPT ![self] = after[1], ![child] = after[2]]
    /\ owner' = IF objs[self].shape = "group"
                THEN [owner EXCEPT ![child] = self] ELSE owner
    /\ step' = Step("add_child", self, child, step.n + 1)
    /\ UNCHANGED <<shadingVars, renderVars, matrixVars>>

\* o.set_transform(m)
SetTransform(o, m) ==
    /\ step.n < MaxOps
    /\ objs' = [objs EXCEPT ![o] = set_transform(@, m)]
    /\ step' = Step("set_transform", o, "", step.n + 1)
    /\ UNCHANGED <<owner, shadingVars, renderVars, matrixVars>>

\* t = o.with_transform(m)
WithTransform(o, m) ==
    /\ step.n < MaxOps
    /\ o # "t"
    /\ objs' = [objs EXCEPT !["t"] = with_transform(objs[o], m)]
    /\ owner' = [n \in Names |-> IF n = "t" \/ owner[n] = "t" THEN NoOwner ELSE owner[n]]
    /\ step' = Step("with_transform", o, "", step.n + 1)
    /\ UNCHANGED <<shadingVars, renderVars, matrixVars>>

\* t = o.with_material(m)
WithMaterial(o, m) ==
    /\ step.n < MaxOps
    /\ o # "t"
    /\ objs' = [objs EXCEPT !["t"] = with_material(objs[o], m)]
    /\ owner' = [n \in Names |-> IF n = "t" \/ owner[n] = "t" THEN NoOwner ELSE owner[n]]
    /\ step' = Step("with_material", o, "", step.n + 1)
    /\ UNCHANGED <<shadingVars, renderVars, matrixVars>>

SceneNext ==
    \/ \E self \in Names, child \in Names : AddChild(self, child)
    \/ \E o \in Names : \E m \in SceneTransforms(objs[o]) : SetTransform(o, m)
    \/ \E o \in Names : \E m \in SceneTransforms(objs[o]) : WithTransform(o, m)
    \/ \E o \in Names : \E m \in SceneMaterials : WithMaterial(o, m)

SceneSpec == SceneInit /\ [][SceneNext]_vars

-----------------------------------------------------------------------------
(* Camera::render.  The pixel slice is cut into chunks, one per row, and   *)
(* rayon hands the chunks to workers that run in any order and             *)
(* interleaving; within a chunk the pixels are written from x = 0 on.      *)

RenderInit ==
    /\ ShadingIdle
    /\ world \in RenderWorlds
    /\ SceneIdle
    /\ camera \in Cameras
    /\ image = CanvasNew(0, 0)
    /\ cursor = <<>>
    /\ writes = <<>>
    /\ rstate = "ready"
    /\ MatrixIdle

\* let mut image = Canvas::new(..); the chunks are handed out
RenderStart ==
    /\ rstate = "ready"
    /\ image' = CanvasNew(camera.hsize, camera.vsize)
    /\ cursor' = [y \in 1..NumChunks(camera.hsize * camera.vsize, ChunkSize(camera)) |-> 0]
    /\ writes' = [i \in 1..(camera.hsize * camera.vsize) |-> <<>>]
    /\ rstate' = "rendering"
    /\ UNCHANGED <<shadingVars, sceneVars, camera, matrixVars>>

\* one turn of the loop of the worker that holds chunk y
WritePixel(y) ==
    /\ rstate = "rendering"
    /\ LET len == Len(image.pixels)
           x == cursor[y + 1]
           ray == ray_for_pixel(camera, x, y)
           color == ColorAtOf(world, ray)
           index == y * ChunkSize(camera) + x + 1
       IN  /\ x < ChunkLen(len, ChunkSize(camera), y)
           /\ image' = [image EXCEPT !.pixels[index] = color]
           /\ writes' = [writes EXCEPT ![index] = Append(@, [y |-> y, x |-> x])]
    /\ cursor' = [cursor EXCEPT ![y + 1] = @ + 1]
    /\ UNCHANGED <<shadingVars, sceneVars, camera, rstate, matrixVars>>

\* for_each returns when every chunk is done; render returns the image
RenderEnd ==
    /\ rstate = "rendering"
    /\ \A y \in 1..Len(cursor) :
          cursor[y] = ChunkLen(Len(image.pixels), ChunkSize(camera), y - 1)
    /\ rstate' = "done"
    /\ UNCHANGED <<shadingVars, sceneVars, camera, image, cursor, writes, matrixVars>>

RenderNext ==
    \/ RenderStart
    \/ \E y \in 0..(Len(cursor) - 1) : WritePixel(y)
    \/ RenderEnd

RenderSpec == RenderInit /\ [][RenderNext]_vars

-----------------------------------------------------------------------------
(* A client of Matrix: it builds matrices, takes submatrices, transposes   *)
(* and inverses, multiplies, and chains the helpers of Transformation.  A  *)
(* call that panics ends the client.                                       *)

MatrixInit ==
    /\ ShadingIdle /\ world = NoWorld /\ SceneIdle /\ RenderIdle /\ MatrixIdle

\* the client goes on with the matrix a call returned
Returned(op, m) ==
    /\ mat # Panicked
    /\ mstep.n < MaxCalls
    /\ mat' = m
    /\ chain' = <<m>>
    /\ mstep' = MStep(op, mstep.n + 1)
    /\ UNCHANGED <<shadingVars, sceneVars, renderVars>>

\* a chained helper: one more factor
Chained(op, factor, m) ==
    /\ mat # Panicked
    /\ mstep.n < MaxCalls
    /\ mat' = m
    /\ chain' = IF m = Panicked THEN <<m>> ELSE Append(chain, factor)
    /\ mstep' = MStep(op, mstep.n + 1)
    /\ UNCHANGED <<shadingVars, sceneVars, renderVars>>

MatNew(data) == Returned("new", MatrixNew(data))
MatTranspose == Returned("transpose", MatrixTranspose(mat))
\* submatrix of a matrix of size 0: the subtraction size - 1 panics in a
\* build with overflow checks and wraps in one without, which yields the
\* one-entry list [0.0]
MatSubmatrix(row, col) ==
    \/ mat.size > 0 /\ row < mat.size /\ col < mat.size
          /\ Returned("submatrix", submatrix(mat, row, col))
    \/ mat.size = 0 /\ row = 0 /\ col = 0
          /\ \E m \in {Panicked, MatrixNew(<<I(0)>>)} : Returned("submatrix", m)
MatInverse == Returned("inverse", MatrixInverse(mat))
MatMul(other) == Returned("mul", MatrixMul(mat, other))
Translate(x, y, z) == Chained("translate", Translation4(x, y, z), translate(mat, x, y, z))
Scale(x, y, z) == Chained("scale", Scaling4(x, y, z), scale(mat, x, y, z))
RotateX == Chained("rotate_x", RotationX4, rotate_x(mat))
RotateY == Chained("rotate_y", RotationY4, rotate_y(mat))
RotateZ == Chained("rotate_z", RotationZ4, rotate_z(mat))
Shear(xy, xz, yx, yz, zx, zy) ==
    Chained("shear", Shearing4(xy, xz, yx, yz, zx, zy), shear(mat, xy, xz, yx, yz, zx, zy))

MatrixNext ==
    \/ \E data \in MatrixData : MatNew(data)
    \/ MatTranspose
    \/ \E row \in 0..1, col \in 0..1 : MatSubmatrix(row, col)
    \/ MatInverse
    \/ MatMul(RotationZ4)
    \/ Translate(I(10), I(5), I(7))
    \/ Scale(I(5), I(5), I(5))
    \/ RotateX
    \/ RotateY
    \/ RotateZ
    \/ Shear(I(1), I(0), I(0), I(2), I(0), I(0))

MatrixSpec == MatrixInit /\ [][MatrixNext]_vars

-----------------------------------------------------------------------------
(* Claims                                                                  *)

Done(fn) == phase = "done" /\ call.fn = fn

\* the number of color_at invocations on the stack
ChainLength == Cardinality({k \in 1..Len(stack) : stack[k].fn = "color_at"})

\* C1: color_at(ray, d) terminates, and no chain of nested color_at calls
\* started by it is longer than d + 1 (checked under FairSpec).
C1_ColorAtTerminates ==
    /\ [](call.fn = "color_at" => ChainLength <= call.depth + 1)
    /\ (call.fn = "color_at" => <>(phase = "done"))

\* C1 witness: between the two mirrors a chain of d + 1 calls is reached
C1_Witness ==
    /\ call.fn = "color_at" /\ world = MirrorWorld /\ call.depth = MaxDepth
    /\ ChainLength = call.depth + 1

\* C2: hit returns the intersection of least t among those with t >= 0,
\* an intersection at t = 0 included, and None exactly when the list is
\* empty or every t is negative.
C2_HitLeastNonNegative ==
    Done("hit") =>
        LET xs == call.xs
            h == out.hit
        IN  /\ h \in 0..Len(xs)
            /\ h = 0 <=> \A k \in 1..Len(xs) : RLt(xs[k].t, I(0))
            /\ h # 0 => /\ RGe(xs[h].t, I(0))
                        /\ \A k \in 1..Len(xs) :
                              RGe(xs[k].t, I(0)) => RLe(xs[h].t, xs[k].t)

\* C2 witness: a list with a negative, a zero and a positive t; the hit is
\* the intersection at t = 0
C2_Witness ==
    /\ Done("hit") /\ out.hit # 0 /\ call.xs[out.hit].t = I(0)
    /\ \E a, b \in 1..Len(call.xs) : RLt(call.xs[a].t, I(0)) /\ RGt(call.xs[b].t, I(0))

\* the objects entered after the first j entries of xs are toggled, as the
\* claim C3 words it: an object is removed if it was entered, appended if not
ClaimToggle(entered, o) ==
    IF \E k \in 1..Len(entered) : entered[k] = o
    THEN SelectSeq(entered, LAMBDA e : e # o)
    ELSE Append(entered, o)

RECURSIVE Entered(_, _)
Entered(xs, j) == IF j = 0 THEN <<>> ELSE ClaimToggle(Entered(xs, j - 1), xs[j].object)

IndexOfLast(entered) ==
    IF entered = <<>> THEN I(1) ELSE entered[Len(entered)].material.refractive_index

\* the first position of xs whose entry equals the intersection
FirstMatch(xs, self) ==
    CHOOSE j \in 1..Len(xs) : xs[j] = self /\ \A i \in 1..(j - 1) : xs[i] # self

\* the pairs (n1, n2) of the list A, B, C, B, C, A
ExamplePairs ==
    <<<<I(1), R(3, 2)>>, <<R(3, 2), I(2)>>, <<I(2), R(5, 2)>>,
      <<R(5, 2), R(5, 2)>>, <<R(5, 2), R(3, 2)>>, <<R(3, 2), I(1)>>>>

\* C3 as stated: for prepare_computations on the k-th entry of a list, n1 is
\* the index of the last entered object before the k-th entry is toggled
\* and n2 the one after it (1.0 when nothing is entered).
C3_AtKthEntry ==
    (Done("prepare_computations") /\ call.k >= 1) =>
        /\ out.comps.n1 = IndexOfLast(Entered(call.xs, call.k - 1))
        /\ out.comps.n2 = IndexOfLast(Entered(call.xs, call.k))

\* C3: for prepare_computations on an entry of a list, with j the first
\* position whose entry equals that intersection (same t, equal object),
\* n1 is the index of the last entered object before the j-th entry is
\* toggled and n2 the one after it, 1.0 when nothing is entered; the list
\* A, B, C, B, C, A gives (1.0,1.5), (1.5,2.0), (2.0,2.5), (2.5,2.5),
\* (2.5,1.5), (1.5,1.0).
C3_AtFirstEqualEntry ==
    (Done("prepare_computations") /\ call.k >= 1) =>
        LET j == FirstMatch(call.xs, call.self)
        IN  /\ out.comps.n1 = IndexOfLast(Entered(call.xs, j - 1))
            /\ out.comps.n2 = IndexOfLast(Entered(call.xs, j))
            /\ call.xs = ExampleXs =>
                  <<out.comps.n1, out.comps.n2>> = ExamplePairs[call.k]

\* C3 witness: the fourth entry of A, B, C, B, C, A (B is left inside C)
C3_Witness ==
    /\ Done("prepare_computations") /\ call.xs = ExampleXs /\ call.k = 4
    /\ out.comps.n1 = R(5, 2) /\ out.comps.n2 = R(5, 2)

\* the record color_at hands to shade_hit, for a color_at frame that waits
\* for shade_hit, and the list of all intersections of its ray
HandedRecord(k) == stack[k + 1].record
AllIntersections(k) == WorldIntersect(world, stack[k].ray)

\* C4 as stated: color_at hands the list of all intersections of the ray to
\* prepare_computations, so the n1 and n2 of the record of its hit are the
\* ones of the hit's place in that list.
C4_FullListHanded ==
    \A k \in 1..(Len(stack) - 1) :
        (stack[k].fn = "color_at" /\ stack[k].pc = "shade_hit"
            /\ stack[k + 1].fn = "shade_hit") =>
            LET xs == AllIntersections(k)
                j == FirstMatch(xs, xs[hit(xs)])
            IN  /\ HandedRecord(k).n1 = IndexOfLast(Entered(xs, j - 1))
                /\ HandedRecord(k).n2 = IndexOfLast(Entered(xs, j))

\* the invocation on top of the stack is one of fn
Active(fn) == phase = "running" /\ stack # <<>> /\ Top.fn = fn

\* the sum of lighting over the lights of w from light k on, every light
\* with the same shadow flag
RECURSIVE LightingSum(_, _, _, _)
LightingSum(w, record, flag, k) ==
    IF k > Len(w.lights) THEN black
    ELSE RAdd(lighting(record.object.material, w.lights[k], record.over_point,
                       record.eyev, record.normalv, flag),
              LightingSum(w, record, flag, k + 1))

\* C5: a step that returns from shade_hit returns
\* surface + reflected * schlick + refracted * (1 - schlick) exactly when the
\* material has reflectivity > 0 and transparency > 0, and
\* surface + reflected + refracted in every other case; surface is the sum
\* of lighting over all lights, reflected and refracted are the values of
\* reflected_color and refracted_color for the record and the depth.
C5_ShadeHitResult ==
    [][(Active("shade_hit") /\ stack' = Popped) =>
        LET record == Top.record
            m == record.object.material
            surface == LightingSum(world, record,
                                   is_shadowed(world, record.over_point), 1)
            blends == RGt(m.reflectivity, I(0)) /\ RGt(m.transparency, I(0))
            reflected == Top.reflected
            refracted == IF blends THEN ret ELSE Top.refracted
        IN  ret' = IF blends
                   THEN RAdd(RAdd(surface, RMul(reflected, record.schlick)),
                             RMul(refracted, RSub(I(1), record.schlick)))
                   ELSE RAdd(RAdd(surface, reflected), refracted)]_vars

\* C5 witness: shade_hit is about to blend a reflected and a refracted
\* colour that are not black with a reflectance strictly between 0 and 1
C5_Witness ==
    /\ Running("shade_hit", "refracted")
    /\ RGt(Top.record.object.material.reflectivity, I(0))
    /\ RGt(Top.record.object.material.transparency, I(0))
    /\ Top.reflected # black /\ ret # black
    /\ RGt(Top.record.schlick, I(0)) /\ RLt(Top.record.schlick, I(1))

\* the frame pushed by a step, and what a callee is called with
Pushed == stack'[Len(stack')]
Calls(fn, ray, depth) ==
    /\ Len(stack') = Len(stack) + 1
    /\ Pushed.fn = fn /\ Pushed.pc = "start" /\ Pushed.ray = ray /\ Pushed.depth = depth
Returns(v) == stack' = Popped /\ ret' = v

\* C6: reflected_color returns black without casting a ray when depth is 0 or
\* the reflectivity of the material is 0; otherwise it calls color_at with the
\* ray from over_point along reflectv and depth - 1, and returns the
\* reflectivity times the colour it gets.
C6_ReflectedColor ==
    [][Active("reflected_color") =>
        LET record == Top.record
            reflectivity == record.object.material.reflectivity
        IN  IF Top.pc = "start"
            THEN IF Top.depth = 0 \/ reflectivity = I(0)
                 THEN Returns(black)
                 ELSE Calls("color_at", Ray(record.over_point, record.reflectv),
                            Top.depth - 1)
            ELSE Returns(RMul(reflectivity, ret))]_vars

\* C6 witness: reflected_color has got a colour that is not black for a
\* material of reflectivity 1/2
C6_Witness ==
    /\ Running("reflected_color", "color_at")
    /\ Top.record.object.material.reflectivity = R(1, 2)
    /\ ret # black

\* total internal reflection as C7 and C9 word it
SinSquared(record) ==
    RMul(RMul(RDiv(record.n1, record.n2), RDiv(record.n1, record.n2)),
         RSub(I(1), RMul(dot(record.eyev, record.normalv),
                         dot(record.eyev, record.normalv))))
TotalReflection(record) == RGt(SinSquared(record), I(1))

\* C7: refracted_color returns black without casting a ray when depth is 0,
\* when the transparency of the material is 0 or under total internal
\* reflection; otherwise it calls color_at with the ray from under_point along
\* the refracted direction and depth - 1, and returns the transparency times
\* the colour it gets.
C7_RefractedColor ==
    [][Active("refracted_color") =>
        LET record == Top.record
            transparency == record.object.material.transparency
        IN  IF Top.pc = "start"
            THEN IF Top.depth = 0 \/ transparency = I(0) \/ TotalReflection(record)
                 THEN Returns(black)
                 ELSE Calls("color_at",
                            Ray(record.under_point, RefractRay(record).direction),
                            Top.depth - 1)
            ELSE Returns(RMul(transparency, ret))]_vars

\* C7 witness: refracted_color is called under total internal reflection with
\* a depth left and a transparent material
C7_Witness ==
    /\ Done("refracted_color") /\ call.depth > 0
    /\ RGt(call.record.object.material.transparency, I(0))
    /\ TotalReflection(call.record)
    /\ ret = black

\* is_shadowed as C8 words it: some intersection of the ray from the point
\* toward the first light lies at a t >= 0 that is less than the distance
Shadowed(w, point) ==
    LET v == TSub(w.lights[1].position, point)
        all == WorldIntersectFrom(w, Ray(point, normalize(v)), 1)
    IN  \E k \in 1..Len(all) : RGe(all[k].t, I(0)) /\ RLt(all[k].t, magnitude(v))

\* the world with its light k alone
OnlyLight(w, k) == World(w.objects, <<w.lights[k]>>)

\* C8: is_shadowed(point) is true iff the ray from the point toward the first
\* light has a hit with t less than the distance to that light; the lights
\* after the first do not influence it, and the surface colour of shade_hit
\* is the sum of lighting over all lights with that one flag.
C8_FirstLightShadows ==
    /\ (Done("is_shadowed") /\ ~out.panicked) =>
          /\ out.shadowed = Shadowed(world, call.point)
          /\ out.shadowed = is_shadowed(OnlyLight(world, 1), call.point)
    /\ (Active("shade_hit") /\ Top.pc # "start") =>
          Top.surface = LightingSum(world, Top.record,
                                    Shadowed(world, Top.record.over_point), 1)

\* C8 witness: a point of a world with two lights that is shadowed from the
\* first light and would not be from the second one alone
C8_Witness ==
    /\ Done("is_shadowed") /\ Len(world.lights) = 2
    /\ out.shadowed /\ ~Shadowed(OnlyLight(world, 2), call.point)

\* C9: when prepare_computations finds n1 > n2 and
\* (n1/n2)^2 * (1 - cos^2) > 1 with cos = eyev . normalv, the Schlick
\* reflectance of the record is 1.0.
C9_SchlickTotalReflection ==
    (Done("prepare_computations") /\ RGt(out.comps.n1, out.comps.n2)
        /\ TotalReflection(out.comps)) => out.comps.schlick = I(1)

\* C9 witness: the exit of an oblique ray from the glass sphere
C9_Witness ==
    /\ Done("prepare_computations")
    /\ RGt(out.comps.n1, out.comps.n2) /\ TotalReflection(out.comps)
    /\ out.comps.inside /\ out.comps.schlick = I(1)

\* the intersections of the children with the ray in the space of the group
RECURSIVE OfChildren(_, _, _)
OfChildren(children, ray, k) ==
    IF k = 0 THEN <<>>
    ELSE OfChildren(children, ray, k - 1) \o ObjectIntersect(children[k], ray)

Count(xs, e) == Cardinality({k \in 1..Len(xs) : xs[k] = e})

GroupRay == RayTransform(call.ray, inverse(call.object.transform))

\* C10: intersecting a group returns exactly the intersections of all its
\* children (with multiplicity), in ascending order of t whatever the order of
\* the children; a group without children returns none.
C10_GroupIntersect ==
    Done("intersect") /\ call.object.shape = "group" =>
        LET children == call.object.children
            expected == OfChildren(children, GroupRay, Len(children))
            got == out.xs
        IN  /\ \A k \in 1..(Len(got) - 1) : RLe(got[k].t, got[k + 1].t)
            /\ Len(got) = Len(expected)
            /\ \A k \in 1..Len(expected) :
                  Count(got, expected[k]) = Count(expected, expected[k])
            /\ children = <<>> => got = <<>>

\* C10 witness: two children added in an order that is not the order of
\* their intersections
C10_Witness ==
    /\ Done("intersect") /\ Len(call.object.children) = 2
    /\ Len(out.xs) = 4
    /\ out.xs # OfChildren(call.object.children, GroupRay, 2)

\* the objects of the scene-graph client, the world points and the unit
\* normals <<x, y, w>> the conversions are examined on
ScenePoints == {P(I(0), I(2)), P(I(-10), I(2)), P(I(0), I(6))}
SceneNormals == {<<R(3, 5), R(4, 5), I(0)>>, <<I(0), I(1), I(0)>>}
Attached(c) == owner[c] # NoOwner

\* C11: after parent.add_child(child), the child's parent reference shows
\* the parent's current transform, and child.world_to_object converts with
\* it: for a parent that has no parent itself, world_to_object(p) is
\* inverse(T_child) * inverse(T_parent now) * p.
C11_ParentChangeVisible ==
    \A c \in Names :
        Attached(c) =>
            /\ objs[c].parent # None
            /\ objs[c].parent[1].transform = objs[owner[c]].transform
            /\ objs[owner[c]].parent = None =>
                   \A p \in ScenePoints :
                       world_to_object(objs[c], p)
                           = MulPoint(inverse(objs[c].transform),
                                      MulPoint(inverse(objs[owner[c]].transform), p))

\* C12: normal_at(world_point) is
\* normal_to_world(local_normal_at(world_to_object(world_point))), for
\* every object, nested in groups or not.
NormalThroughAncestors(o, p) ==
    LET n == LocalNormalAt(o, world_to_object(o, p))
        v == normal_to_world(o, <<n[1], n[2], I(0)>>)
    IN  <<v[1], v[2]>>
C12_NormalAtThroughAncestors ==
    \A c \in Names : \A p \in ScenePoints :
        normal_at(objs[c], p) = NormalThroughAncestors(objs[c], p)

\* the ancestors of an object by its parent references, the root first
RECURSIVE Chain(_)
Chain(o) == IF o.parent = None THEN <<>> ELSE Append(Chain(o.parent[1]), o.parent[1])

\* the point after the inverse transforms of seq[k], ..., seq[Len(seq)], in
\* that order
RECURSIVE ThroughInverses(_, _, _)
ThroughInverses(seq, p, k) ==
    IF k > Len(seq) THEN p
    ELSE ThroughInverses(seq, MulPoint(inverse(seq[k].transform), p), k + 1)

\* C13: world_to_object(p) applies the inverse transform of the root first,
\* then of every further ancestor down to the direct parent, and the
\* object's own inverse transform last; with no parent only the object's
\* own.  For the chain of the test (a quarter turn, a scaling by 2, a
\* translation by (5, 0)) the point (-10, 2) becomes (-4, 5).
C13_WorldToObject ==
    \A c \in Names : \A p \in ScenePoints :
        /\ world_to_object(objs[c], p)
               = ThroughInverses(Append(Chain(objs[c]), objs[c]), p, 1)
        /\ objs[c].parent = None =>
               world_to_object(objs[c], p) = MulPoint(inverse(objs[c].transform), p)
        /\ /\ <<objs[c].transform>> \o [k \in 1..Len(Chain(objs[c])) |->
                   Chain(objs[c])[Len(Chain(objs[c])) + 1 - k].transform]
                  = <<translation(I(5), I(0)), scaling(I(2), I(2)), rotation_z>>
           /\ p = P(I(-10), I(2))
           => world_to_object(objs[c], p) = P(I(-4), I(5))
C13_Witness ==
    /\ Len(Chain(objs["s"])) = 2
    /\ world_to_object(objs["s"], P(I(-10), I(2))) = P(I(-4), I(5))
    /\ MulPoint(inverse(objs["s"].transform), P(I(-10), I(2))) # P(I(-4), I(5))

\* one step of the conversion of a normal: the transpose of the inverse
\* transform, w set to 0, normalized
NormalStep(o, n) ==
    LET m == inverse(o.transform)
        xy == TransposeMulVector(m, n)
    IN  NormalizeW(<<xy[1], xy[2], I(0)>>)
\* the normal after the steps of seq[k], seq[k - 1], ..., seq[1]
RECURSIVE ThroughSteps(_, _, _)
ThroughSteps(seq, n, k) ==
    IF k = 0 THEN n ELSE ThroughSteps(seq, NormalStep(seq[k], n), k - 1)

\* C14: normal_to_world(n) applies the object's own step (transpose of the
\* inverse transform, w set to 0, normalize), then the same step of the
\* parent, the grandparent and so on up to the root; the result has w = 0.
C14_NormalToWorld ==
    \A c \in Names : \A n \in SceneNormals :
        LET seq == Append(Chain(objs[c]), objs[c])
        IN  /\ normal_to_world(objs[c], n) = ThroughSteps(seq, n, Len(seq))
            /\ normal_to_world(objs[c], n)[3] = I(0)
\* a sphere scaled by (3/4, 4/3) in a group turned by a quarter: the normal
\* (3/5, 4/5) becomes (4/5, 3/5) by the sphere's step and (-3/5, 4/5) by the
\* group's
C14_Witness ==
    /\ objs["s"].transform = scaling(R(3, 4), R(4, 3))
    /\ Len(Chain(objs["s"])) = 1
    /\ normal_to_world(objs["s"], <<R(3, 5), R(4, 5), I(0)>>) = <<R(-3, 5), R(4, 5), I(0)>>

\* C20: with_transform (resp. with_material) returns a new object whose
\* transform (resp. material) is the given one and whose shape, children,
\* other attribute and parent are the receiver's; the receiver is unchanged.
C20_WithReturnsCopy ==
    [][ /\ \A o \in Names : \A m \in SceneTransforms(objs[o]) :
             WithTransform(o, m) =>
                 /\ objs'["t"].transform = m
                 /\ objs'["t"].shape = objs[o].shape
                 /\ objs'["t"].children = objs[o].children
                 /\ objs'["t"].material = objs[o].material
                 /\ objs'["t"].parent = objs[o].parent
                 /\ objs'[o] = objs[o]
        /\ \A o \in Names : \A m \in SceneMaterials :
             WithMaterial(o, m) =>
                 /\ objs'["t"].material = m
                 /\ objs'["t"].shape = objs[o].shape
                 /\ objs'["t"].children = objs[o].children
                 /\ objs'["t"].transform = objs[o].transform
                 /\ objs'["t"].parent = objs[o].parent
                 /\ objs'[o] = objs[o] ]_vars
\* with_transform on an object attached to a group:
\* the copy keeps the parent and differs from the receiver in the transform
C20_Witness ==
    /\ step.op = "with_transform"
    /\ objs[step.self].parent # None
    /\ objs["t"].parent = objs[step.self].parent
    /\ objs["t"].transform # objs[step.self].transform

\* the objects below a group that are not groups, at any depth
RECURSIVE NonGroupsBelow(_)
NonGroupsBelow(g) ==
    UNION {IF g.children[k].shape = "group" THEN NonGroupsBelow(g.children[k])
           ELSE {g.children[k]} : k \in 1..Len(g.children)}

CellOf(x, y) == y * camera.hsize + x + 1
\* the image render has to return
ExpectedPixels ==
    [i \in 1..(camera.hsize * camera.vsize) |->
        ColorAtOf(world, ray_for_pixel(camera, (i - 1) % camera.hsize,
                                               (i - 1) \div camera.hsize))]
RenderCells ==
    rstate # "ready" =>
        /\ Len(image.pixels) = camera.hsize * camera.vsize
        /\ \A x \in 0..(camera.hsize - 1), y \in 0..(camera.vsize - 1) :
              LET i == CellOf(x, y)
              IN  /\ Len(writes[i]) <= 1
                  /\ \A k \in 1..Len(writes[i]) : writes[i][k] = [y |-> y, x |-> x]
                  /\ image.pixels[i] =
                         IF writes[i] = <<>> THEN BlackPixel
                         ELSE ColorAtOf(world, ray_for_pixel(camera, x, y))
                  /\ rstate = "done" => Len(writes[i]) = 1
        /\ rstate = "done" => image.pixels = ExpectedPixels

\* C15: in Camera::render every cell (x, y) is written exactly once, by the
\* worker of row y, with the colour of ray_for_pixel(x, y); no cell is
\* written by two workers; the world is never modified; the image returned
\* is the same whatever the order and interleaving of the rows.
C15_RenderPartition == [](RenderCells) /\ [][world' = world]_vars
\* the second row is finished before the first is begun
C15_Witness ==
    /\ rstate = "rendering"
    /\ camera.hsize >= 2 /\ camera.vsize >= 2
    /\ cursor[1] = 0 /\ cursor[2] = camera.hsize
    /\ Len(writes[CellOf(1, 1)]) = 1 /\ writes[CellOf(0, 0)] = <<>>

C17_MatrixSizes ==
    mat # Panicked => mat.size \in {2, 3, 4} /\ Len(mat.data) = mat.size * mat.size

\* the tuple after the matrices seq[k], ..., seq[Len(seq)], in that order
RECURSIVE ApplyInOrder(_, _, _)
ApplyInOrder(seq, t, k) ==
    IF k > Len(seq) THEN t ELSE ApplyInOrder(seq, MatrixMulTuple(seq[k], t), k + 1)
\* seq[Len(seq)] * ... * seq[1]
RECURSIVE ProductOf(_, _)
ProductOf(seq, k) ==
    IF k = 1 THEN seq[1] ELSE MatrixMul(seq[k], ProductOf(seq, k - 1))
MatrixPoints == {<<I(1), I(0), I(1), I(1)>>, <<I(2), I(3), I(4), I(1)>>}

\* C18: each chained helper multiplies its matrix on the left of the
\* receiver, so a chain is the product of its matrices with the last call
\* leftmost and, applied to a point, applies the first call first;
\* identity.rotate_x(PI / 2).scale(5, 5, 5).translate(10, 5, 7) takes the
\* point (1, 0, 1) to (15, 0, 7).
C18_HelpersPreMultiply ==
    mat # Panicked /\ mat.size = 4 =>
        /\ mat = ProductOf(chain, Len(chain))
        /\ \A p \in MatrixPoints : MatrixMulTuple(mat, p) = ApplyInOrder(chain, p, 1)
        /\ chain = <<MatrixIdentity, RotationX4, Scaling4(I(5), I(5), I(5)),
                     Translation4(I(10), I(5), I(7))>> =>
               /\ mat = MatrixMul(Translation4(I(10), I(5), I(7)),
                                  MatrixMul(Scaling4(I(5), I(5), I(5)), RotationX4))
               /\ MatrixMulTuple(mat, <<I(1), I(0), I(1), I(1)>>)
                      = <<I(15), I(0), I(7), I(1)>>
C18_Witness ==
    /\ chain = <<MatrixIdentity, RotationX4, Scaling4(I(5), I(5), I(5)),
                 Translation4(I(10), I(5), I(7))>>
    /\ mstep.op = "translate"
    /\ MatrixMulTuple(mat, <<I(1), I(0), I(1), I(1)>>) = <<I(15), I(0), I(7), I(1)>>
    /\ mat # MatrixMul(RotationX4, MatrixMul(Scaling4(I(5), I(5), I(5)),
                                             Translation4(I(10), I(5), I(7))))

-----------------------------------------------------------------------------
\* C21: when several intersections of the list share the smallest
\* non-negative t, hit returns the one that comes first in the list: no
\* entry before the hit has the t of the hit.
C21_HitFirstOfTies ==
    Done("hit") /\ out.hit # 0 =>
        \A k \in 1..(out.hit - 1) : call.xs[k].t # call.xs[out.hit].t

\* C21 witness: the hit is followed by an entry of the same t on another
\* object
C21_Witness ==
    /\ Done("hit") /\ out.hit # 0
    /\ \E k \in (out.hit + 1)..Len(call.xs) :
          /\ call.xs[k].t = call.xs[out.hit].t
          /\ call.xs[k].object # call.xs[out.hit].object

-----------------------------------------------------------------------------
\* r0 + (1 - r0)(1 - cos)^5 with r0 = ((n1 - n2) / (n1 + n2))^2
Reflectance(n1, n2, cos) ==
    RAdd(RPow(RDiv(RSub(n1, n2), RAdd(n1, n2)), 2),
         RMul(RSub(I(1), RPow(RDiv(RSub(n1, n2), RAdd(n1, n2)), 2)),
              RPow(RSub(I(1), cos), 5)))

\* the square root of a is a fraction
HasRoot(a) == RGe(a, I(0)) /\ RPow(RSqrt(a), 2) = a

\* cos^2 of the refracted angle: 1 - (n1/n2)^2 (1 - cos^2 of the incident one)
CosSquaredT(record) == RSub(I(1), SinSquared(record))

\* C22: when n1 > n2 and there is no total internal reflection, the Schlick
\* reflectance of the record is r0 + (1 - r0)(1 - cos t)^5 with cos t the
\* cosine of the refracted angle (compared where that cosine is a fraction);
\* when n1 <= n2 it is r0 + (1 - r0)(1 - |cos i|)^5 with cos i = eyev . normalv.
C22_SchlickCosine ==
    Done("prepare_computations") =>
        IF RGt(out.comps.n1, out.comps.n2)
        THEN (~TotalReflection(out.comps) /\ HasRoot(CosSquaredT(out.comps))) =>
                 out.comps.schlick =
                     Reflectance(out.comps.n1, out.comps.n2,
                                 RSqrt(CosSquaredT(out.comps)))
        ELSE out.comps.schlick =
                 Reflectance(out.comps.n1, out.comps.n2,
                             RAbs(dot(out.comps.eyev, out.comps.normalv)))

-----------------------------------------------------------------------------
\* C23: one shade_hit invocation evaluates reflected_color once and
\* refracted_color once: it calls reflected_color only as its first call
\* and refracted_color only as its second one, whichever result formula
\* applies.
C23_ShadeHitEvaluatesOnce ==
    [][(Active("shade_hit") /\ Len(stack') = Len(stack) + 1) =>
        /\ Pushed.fn = "reflected_color" => Top.pc = "start"
        /\ Pushed.fn = "refracted_color" => Top.pc = "reflected"]_vars

-----------------------------------------------------------------------------
\* the x at which the ray crosses the plane y = r
CrossingX(ray, r) ==
    RAdd(ray.origin[1],
         RMul(RDiv(RSub(r, ray.origin[2]), ray.direction[2]), ray.direction[1]))

\* the cap at y = r is to be reported: the cone is closed, the ray is not
\* parallel to the plane of the cap and crosses it within the radius |r|
CapExpected(cone, ray, r) ==
    /\ cone.closed
    /\ ray.direction[2] # I(0)
    /\ RLe(RPow(CrossingX(ray, r), 2), RPow(r, 2))

\* the intersections intersect_caps has pushed
PushedCaps == SubSeq(out.xs, Len(call.xs) + 1, Len(out.xs))
CapT(ray, r) == RDiv(RSub(r, ray.origin[2]), ray.direction[2])

\* C24: for a closed cone a cap intersection at y = minimum (resp. maximum)
\* is reported iff the ray is not parallel to the cap plane and crosses it
\* within the disk x^2 + z^2 <= y^2; an unclosed cone reports none.
C24_ConeCaps ==
    Done("intersect_caps") =>
        PushedCaps =
            (IF CapExpected(call.cone, call.ray, call.cone.minimum)
             THEN <<Intersection(CapT(call.ray, call.cone.minimum), call.object)>>
             ELSE <<>>)
            \o (IF CapExpected(call.cone, call.ray, call.cone.maximum)
                THEN <<Intersection(CapT(call.ray, call.cone.maximum), call.object)>>
                ELSE <<>>)

-----------------------------------------------------------------------------
\* only add_child has changed the objects of the client: every variable
\* holds the shape, transform and material it started with
OnlyAddChild ==
    \A n \in Names :
        /\ objs[n].shape = SceneObjects[n].shape
        /\ objs[n].transform = SceneObjects[n].transform
        /\ objs[n].material = SceneObjects[n].material

\* the child list of g holds c together with the children of c
HoldsChild(g, c) ==
    \E k \in 1..Len(g.children) :
        /\ g.children[k].shape = c.shape
        /\ g.children[k].transform = c.transform
        /\ g.children[k].children = c.children

\* C25: after any sequence of add_child calls, parent references and child
\* lists describe the same tree: if c was attached to group g, the child
\* list of g holds c together with every child attached to c, and the
\* parent of c is g holding c in its child list.
C25_TreeConsistent ==
    OnlyAddChild =>
        \A c \in Names :
            Attached(c) =>
                /\ HoldsChild(objs[owner[c]], objs[c])
                /\ objs[c].parent # None
                /\ HoldsChild(objs[c].parent[1], objs[c])

-----------------------------------------------------------------------------
\* the depths on the stack: no depth is below 0; under a call
\* color_at(ray, d) every nested color_at has a depth in 0..d-1; shade_hit
\* has the depth of the color_at that called it
DepthsInRange ==
    /\ \A k \in 1..Len(stack) : stack[k].depth >= 0
    /\ call.fn = "color_at" =>
           \A k \in 2..Len(stack) :
               stack[k].fn = "color_at" => stack[k].depth \in 0..(call.depth - 1)
    /\ \A k \in 2..Len(stack) :
           (stack[k].fn = "shade_hit" /\ stack[k - 1].fn = "color_at")
               => stack[k].depth = stack[k - 1].depth

\* a step of reflected_color or refracted_color that calls color_at
CastsRay ==
    /\ Active("reflected_color") \/ Active("refracted_color")
    /\ Len(stack') = Len(stack) + 1
    /\ Pushed.fn = "color_at"

\* C26: reflected_color and refracted_color compute depth - 1 only when
\* depth >= 1, so the depth never goes below 0; every color_at called while
\* color_at(ray, d) is evaluated gets a depth in 0..d-1, and shade_hit gets
\* the depth of the color_at that called it.
C26_DepthInRange ==
    /\ [](DepthsInRange)
    /\ [][CastsRay => (Top.depth >= 1 /\ Pushed.depth = Top.depth - 1)]_vars

\* C26 witness: under color_at(ray, d) with d >= 1, reflected_color is
\* entered with depth 0 on a material that reflects
C26_Witness ==
    /\ call.fn = "color_at" /\ call.depth >= 1
    /\ Running("reflected_color", "start") /\ Top.depth = 0
    /\ get_material(Top.record.object).reflectivity # I(0)
    /\ Len(stack) >= 6

-----------------------------------------------------------------------------
\* C27: after any sequence of add_child and set_transform calls
\* (a.add_child(b) followed by b.add_child(a) included) the parent chain of
\* every object is finite and acyclic: it is no longer than the number of
\* calls made, each ancestor has a shorter chain than its descendant, and
\* world_to_object and normal_to_world return a point and a vector.
C27_ParentChainFinite ==
    \A c \in Names :
        /\ Len(Chain(objs[c])) <= step.n
        /\ \A k \in 1..Len(Chain(objs[c])) :
               /\ Len(Chain(Chain(objs[c])[k])) = k - 1
               /\ Chain(objs[c])[k] # objs[c]
        /\ \A p \in ScenePoints : Len(world_to_object(objs[c], p)) = 2
        /\ \A n \in SceneNormals : Len(normal_to_world(objs[c], n)) = 3

\* C27 witness: a.add_child(b) followed by b.add_child(a) for the two
\* groups: each is attached to the other, and the chain of the second
\* receiver's child has two ancestors
C27_Witness ==
    \E a, b \in Names :
        /\ a # b /\ owner[a] = b /\ owner[b] = a
        /\ step.op = "add_child" /\ step.self = b /\ step.arg = a
        /\ Len(Chain(objs[a])) = 2 /\ Len(Chain(objs[b])) = 1

-----------------------------------------------------------------------------
\* C28: add_child on a receiver that is not a group changes nothing: the
\* receiver gains no child, the child keeps the parent it had, and the
\* call returns (the client goes on to its next call).
C28_AddChildOnNonGroup ==
    [][(step'.op = "add_child" /\ step'.n = step.n + 1
            /\ objs[step'.self].shape # "group")
        => (objs' = objs /\ owner' = owner)]_vars

\* C28 witness: add_child was called on an object that is not a group with
\* a child that has a parent
C28_Witness ==
    /\ step.op = "add_child"
    /\ objs[step.self].shape # "group"
    /\ objs[step.self].children = <<>>
    /\ objs[step.arg].parent # None

-----------------------------------------------------------------------------
\* no entry of the list equals the intersection (same t and equal object)
NoEqualEntry(xs, self) == \A k \in 1..Len(xs) : xs[k] # self

\* C29: prepare_computations called with an empty list, or with a list that
\* has no entry equal to the intersection itself, yields n1 = 1.0 and
\* n2 = 1.0 whatever the refractive index of the object; so does every
\* record color_at hands to shade_hit.
C29_NoEntryNoIndex ==
    /\ (Done("prepare_computations") /\ NoEqualEntry(call.xs, call.self)) =>
           (out.comps.n1 = I(1) /\ out.comps.n2 = I(1))
    /\ \A k \in 2..Len(stack) :
           (stack[k].fn = "shade_hit" /\ stack[k - 1].fn = "color_at") =>
               (stack[k].record.n1 = I(1) /\ stack[k].record.n2 = I(1))

\* C29 witness: the list holds entries on the object of the intersection,
\* of refractive index 2.5, at other values of t
C29_Witness ==
    /\ Done("prepare_computations") /\ NoEqualEntry(call.xs, call.self)
    /\ \E k \in 1..Len(call.xs) : call.xs[k].object = call.self.object
    /\ get_material(call.self.object).refractive_index = R(5, 2)
    /\ out.comps.n1 = I(1) /\ out.comps.n2 = I(1)


\* C30: shade_hit calls is_shadowed only while iterating over an existing
\* light: on a world without lights no call of color_at or shade_hit (nor of
\* reflected_color or refracted_color) panics, and the surface colour of every
\* shade_hit is black; a call panics exactly when it is a direct call of
\* is_shadowed on a world without lights.
C30_NoLightNoIndex ==
    /\ out.panicked <=> (Done("is_shadowed") /\ world.lights = <<>>)
    /\ world.lights = <<>> =>
          \A k \in 1..Len(stack) :
              (stack[k].fn = "shade_hit" /\ stack[k].pc # "start") =>
                  stack[k].surface = black

\* C30 witness: color_at on the world without lights has called shade_hit,
\* which is past its loop over the lights with a black surface colour
C30_Witness ==
    /\ world.lights = <<>> /\ call.fn = "color_at"
    /\ Len(stack) > 1 /\ Active("shade_hit") /\ Top.pc # "start"
    /\ Top.surface = black /\ ~out.panicked

====
